---- MODULE Spec2Model ----
(***************************************************************************)
(* Kredensial_Perawat backend: user store (mongoose User model), npk       *)
(* assignment on save, session tokens and the token blacklist, the         *)
(* roleAuth middleware chain, the users / admin / cleanup routes, the      *)
(* register and login handlers, the in-memory question bank and exams,     *)
(* and the files router (upload, download, soft delete).                   *)
(*                                                                         *)
(* Strings that the code formats or parses (npk codes) are sequences of    *)
(* one-character strings, so padStart, parseInt, replace and the           *)
(* /^NPK\d{4}$/ test are computed as the code computes them.               *)
(***************************************************************************)
EXTENDS Integers, Sequences, FiniteSets, TLC

VARIABLES
    users,          \* the users collection: slot (_id) -> record or NoUser
    creq,           \* in-flight User.createUser calls: request -> position and document
    now,            \* the clock, in token-lifetime units
    issued,         \* tokens signed so far by the register and login handlers
    tokenBlacklist, \* exams.js:644 tokenBlacklist
    timers,         \* pending setTimeout evictions of addTokenToBlacklist
    pwreq,          \* PUT /update-password calls past verifyToken, awaiting the save
    revokedLog,     \* history: tokens handed to addTokenToBlacklist so far
    req,            \* the request travelling through an authorize(options) chain
    audit,          \* history: the last request to the users routes or call of the User model
    nodeEnv,        \* process.env.NODE_ENV
    questions,      \* exams.js:61 questions, the in-memory question list
    exams,          \* exams.js:62 exams, the in-memory exam list
    files,          \* the files collection: _id -> File record
    disk,           \* the file names present in uploads/files
    dreq            \* in-flight GET /download/:filename requests: request -> position and loaded document

vars == <<users, creq, now, issued, tokenBlacklist, timers, pwreq, revokedLog, req, audit, nodeEnv, questions, exams, files, disk, dreq>>

----------------------------------------------------------------------------
(* Bounds of the model *)

MaxCreate == 2      \* concurrent User.createUser calls
MaxTime == 3        \* the clock stops advancing here
MaxChain == 2       \* requests sent through a chain in one behaviour
MaxTokens == 2      \* tokens signed in one behaviour
MaxQuestions == 2   \* question ids in use at one time
MaxExams == 1       \* exams in the list at one time
MaxIds == 2         \* length of a questionIds array of a request body
MaxFiles == 1       \* File records created in one behaviour
MaxDownloads == 3   \* download requests in one behaviour

----------------------------------------------------------------------------
(* Strings *)

Digits == <<"0", "1", "2", "3", "4", "5", "6", "7", "8", "9">>

DigitSet == {Digits[i] : i \in 1..10}

DigitVal(c) == (CHOOSE i \in 1..10 : Digits[i] = c) - 1

NaN == 0 - 1

\* Number.prototype.toString for a non-negative integer
RECURSIVE toString(_)
toString(n) == IF n < 10 THEN <<Digits[n + 1]>> ELSE toString(n \div 10) \o <<Digits[(n % 10) + 1]>>

\* String.prototype.padStart(len, "0")
RECURSIVE padStart(_, _)
padStart(s, len) == IF Len(s) >= len THEN s ELSE padStart(<<"0">> \o s, len)

\* String.prototype.replace("NPK", ""): the first occurrence only
RECURSIVE replaceNPK(_)
replaceNPK(s) ==
    IF Len(s) < 3 THEN s
    ELSE IF SubSeq(s, 1, 3) = <<"N", "P", "K">> THEN SubSeq(s, 4, Len(s))
    ELSE <<s[1]>> \o replaceNPK(Tail(s))

\* parseInt(s, 10) on a string without sign or blanks: the leading digits, NaN if none
RECURSIVE parseDigits(_, _)
parseDigits(s, acc) ==
    IF s = <<>> \/ Head(s) \notin DigitSet THEN acc
    ELSE parseDigits(Tail(s), 10 * acc + DigitVal(Head(s)))

parseInt(s) == IF s = <<>> \/ Head(s) \notin DigitSet THEN NaN ELSE parseDigits(s, 0)

\* /^NPK\d{4}$/.test(v)
MatchesNPK(v) ==
    /\ Len(v) = 7
    /\ SubSeq(v, 1, 3) = <<"N", "P", "K">>
    /\ \A i \in 4..7 : v[i] \in DigitSet

\* code unit order of the characters that occur in npk strings
CharCode(c) == IF c \in DigitSet THEN 48 + DigitVal(c) ELSE IF c = "K" THEN 75 ELSE IF c = "N" THEN 78 ELSE 80

\* a < b in the collation of sort({ npk: -1 })
RECURSIVE StrLess(_, _)
StrLess(a, b) ==
    IF b = <<>> THEN FALSE
    ELSE IF a = <<>> THEN TRUE
    ELSE IF Head(a) = Head(b) THEN StrLess(Tail(a), Tail(b))
    ELSE CharCode(Head(a)) < CharCode(Head(b))

\* /^[^\s@]+@[^\s@]+\.[^\s@]+$/.test(email)
MatchesEmail(v) ==
    /\ \A i \in 1..Len(v) : v[i] # " "
    /\ Cardinality({i \in 1..Len(v) : v[i] = "@"}) = 1
    /\ \E i, j \in 1..Len(v) :
          /\ v[i] = "@"
          /\ v[j] = "."
          /\ 1 < i
          /\ i + 1 < j
          /\ j < Len(v)

----------------------------------------------------------------------------
(* Documents of the users collection (part_000:5-120).  A document is a     *)
(* record whose optional paths (npk, unit, lastLogin) may be absent.        *)

Roles == {"admin", "mitra", "perawat", "kepala-unit"}

PermissionTags ==
    {"view_credentials", "create_credentials", "edit_credentials", "delete_credentials",
     "manage_users", "view_reports", "system_settings"}

Has(d, k) == k \in DOMAIN d

Put(d, k, v) == [x \in (DOMAIN d) \cup {k} |-> IF x = k THEN v ELSE d[x]]

\* !doc.npk
NoNpk(d) == ~Has(d, "npk") \/ d.npk = <<>>

NPK(n) == <<"N", "P", "K">> \o padStart(toString(n), 4)

\* bcrypt.hash(plain, salt)
Hash(plain) == <<"bcrypt", plain>>

\* new User(userData): the schema defaults applied to the candidate
NewUser(userData) ==
    LET withRole == IF Has(userData, "role") THEN userData ELSE Put(userData, "role", "perawat")
        withPerms == IF Has(withRole, "permissions") THEN withRole ELSE Put(withRole, "permissions", {})
    IN  IF Has(withPerms, "isActive") THEN withPerms ELSE Put(withPerms, "isActive", TRUE)

\* the paths of a document that fail schema validation (validateBeforeSave)
ValidationErrors(d) ==
    {f \in {"username", "email", "password", "npk", "role", "unit", "permissions"} :
        \/ f = "username" /\ (~Has(d, "username") \/ Len(d.username) < 3 \/ Len(d.username) > 30)
        \/ f = "email" /\ (~Has(d, "email") \/ ~MatchesEmail(d.email))
        \/ f = "password" /\ (~Has(d, "password") \/ Len(d.password) < 8)
        \/ f = "npk" /\ (IF NoNpk(d) THEN d.role = "perawat" ELSE ~MatchesNPK(d.npk))
        \/ f = "role" /\ d.role \notin Roles
        \/ f = "unit" /\ d.role \in {"perawat", "kepala-unit"} /\ (~Has(d, "unit") \/ d.unit = <<>>)
        \/ f = "permissions" /\ ~(d.permissions \subseteq PermissionTags)}

\* the paths a save() of a loaded document rejects (a stored password is a hash and long enough)
SaveErrors(d) == ValidationErrors(d) \ {"password"}

\* findOne({ role: "perawat", npk: { $regex: /^NPK\d{4}$/ } }, { npk: 1 }, { sort: { npk: -1 } })
NurseNpks(store) ==
    {store[s].npk : s \in {x \in DOMAIN store : store[x].role = "perawat" /\ ~NoNpk(store[x]) /\ MatchesNPK(store[x].npk)}}

HasLastNurse(store) == NurseNpks(store) # {}

LastNurseNpk(store) == CHOOSE m \in NurseNpks(store) : \A o \in NurseNpks(store) : ~StrLess(m, o)

\* the second pre("save") hook: the npk a perawat document without one is given
NextNpk(store) ==
    LET nextNumber == IF HasLastNurse(store) THEN parseInt(replaceNPK(LastNurseNpk(store))) + 1 ELSE 1
    IN  padStart(toString(nextNumber), 4)

\* the collection with the unique index on npk left out
DuplicateKeys_NoNpkIndex(store, self, d) ==
    {f \in {"username", "email"} :
        /\ Has(d, f)
        /\ \E s \in (DOMAIN store) \ {self} : Has(store[s], f) /\ store[s][f] = d[f]}

\* the unique indexes of the collection: username, email, and npk (sparse)
DuplicateKeys(store, self, d) ==
    {f \in {"username", "email", "npk"} :
        /\ Has(d, f)
        /\ \E s \in (DOMAIN store) \ {self} : Has(store[s], f) /\ store[s][f] = d[f]}

----------------------------------------------------------------------------
(* User.createUser (part_000:192-204): new this(userData); await save().    *)
(* save() runs the schema validation first, then the pre("save") hooks in   *)
(* the order of their registration, then the insert.                        *)

CreateReqs == 1..MaxCreate

Username(n) == IF n = 1 THEN <<"a", "n", "i">> ELSE <<"b", "u", "d", "i">>

Email(n) == IF n = 1 THEN <<"a", "@", "x", ".", "y">> ELSE <<"b", "@", "x", ".", "y">>

Password == <<"s", "e", "c", "r", "e", "t", "1", "2">>

UnitICU == <<"I", "C", "U">>

Bare(role, uname) == [username |-> Username(uname), email |-> Email(uname), password |-> Password, role |-> role]

\* the userData the model hands to createUser
CreateInputs ==
    LET base == {Bare(r, u) : r \in {"perawat", "admin"}, u \in 1..2}
        withUnit == base \cup {Put(b, "unit", UnitICU) : b \in base}
    IN  withUnit \cup {Put(b, "npk", n) : b \in withUnit, n \in {NPK(1), <<"0", "0", "0", "1">>}}

IdleReq == [pc |-> "idle", err |-> "", auto |-> FALSE, paths |-> {}]

\* createUser is called: the document is built and validated, the password hashed
SaveValidate(r, userData) ==
    /\ creq[r].pc = "idle"
    /\ LET doc == NewUser(userData)
           auto == doc.role = "perawat" /\ NoNpk(doc)
       IN  creq' = [creq EXCEPT ![r] =
                IF ValidationErrors(doc) # {}
                THEN [pc |-> "failed", err |-> "ValidationError", auto |-> auto, paths |-> ValidationErrors(doc)]
                ELSE [pc |-> "hook", err |-> "", auto |-> auto, paths |-> {},
                      doc |-> [doc EXCEPT !.password = Hash(doc.password)]]]
    /\ UNCHANGED <<users, now, issued, tokenBlacklist, timers, pwreq, revokedLog, req, audit, nodeEnv, questions, exams, files, disk, dreq>>

\* the npk hook: await findOne(...), then this.npk = ...
SaveNpkHook(r) ==
    /\ creq[r].pc = "hook"
    /\ LET doc == creq[r].doc
       IN  creq' = [creq EXCEPT ![r].pc = "insert",
                                ![r].doc = IF doc.role = "perawat" /\ NoNpk(doc)
                                           THEN Put(doc, "npk", NextNpk(users))
                                           ELSE doc]
    /\ UNCHANGED <<users, now, issued, tokenBlacklist, timers, pwreq, revokedLog, req, audit, nodeEnv, questions, exams, files, disk, dreq>>

\* the insert, under the unique indexes; E11000 becomes "<field> already exists"
SaveInsert(r) ==
    /\ creq[r].pc = "insert"
    /\ IF DuplicateKeys(users, r, creq[r].doc) # {}
       THEN /\ creq' = [creq EXCEPT ![r] = [pc |-> "failed", err |-> "DuplicateError", auto |-> creq[r].auto, paths |-> {}]]
            /\ users' = users
       ELSE /\ creq' = [creq EXCEPT ![r] = [pc |-> "ok", err |-> "", auto |-> creq[r].auto, paths |-> {}]]
            /\ users' = [s \in (DOMAIN users) \cup {r} |-> IF s = r THEN creq[r].doc ELSE users[s]]
    /\ UNCHANGED <<now, issued, tokenBlacklist, timers, pwreq, revokedLog, req, audit, nodeEnv, questions, exams, files, disk, dreq>>

----------------------------------------------------------------------------
(* The users router (admin.js:56-190), mounted at /api/users without any    *)
(* middleware (part_001:176), the admin role route (admin.js:17-52) and the *)
(* cleanup routes of the server (part_001:478-531).  None of them reads the *)
(* Authorization header: who sent the request is an input the code ignores. *)

Callers == {"anonymous", "perawat", "admin"}

\* String.prototype.toLowerCase on the role strings the model sends
toLowerCase(s) == IF s = "ADMIN" THEN "admin" ELSE s

\* request bodies of PUT /:id and PATCH /:id/role
PutBodies ==
    {[role |-> "ADMIN"], [role |-> "perawat"], [role |-> "kepala-unit"],
     [npk |-> NPK(1)], [npk |-> <<"0", "0", "0", "1">>],
     [permissions |-> {"manage_users"}]}

\* validateRoleUpdate: the body as the handler sees it, or a 400
RoleRejected(body) == Has(body, "role") /\ toLowerCase(body.role) \notin {"admin", "mitra", "perawat"}

NormalizedBody(body) == IF Has(body, "role") THEN [body EXCEPT !.role = toLowerCase(body.role)] ELSE body

\* PUT /:id: the keys of the body the handler keeps
FilteredUpdates(body) == [k \in (DOMAIN body) \cap {"name", "email", "npk", "role"} |-> body[k]]

\* runValidators: the update validators of the paths being set
UpdateInvalid(updates) ==
    \/ Has(updates, "role") /\ updates.role \notin Roles
    \/ Has(updates, "npk") /\ ~MatchesNPK(updates.npk)
    \/ Has(updates, "permissions") /\ ~(updates.permissions \subseteq PermissionTags)

\* the document after $set of the updates
ApplyUpdates(d, updates) == [k \in (DOMAIN d) \cup (DOMAIN updates) |-> IF Has(updates, k) THEN updates[k] ELSE d[k]]

\* findByIdAndUpdate(id, updates, { new: true, runValidators: true }) and the status the handlers answer
UpdateStatus(store, id, updates) ==
    IF UpdateInvalid(updates) THEN 500
    ELSE IF id \notin DOMAIN store THEN 404
    ELSE IF DuplicateKeys(store, id, updates) # {} THEN 500
    ELSE 200

UpdatedStore(store, id, updates) ==
    IF UpdateStatus(store, id, updates) = 200
    THEN [store EXCEPT ![id] = ApplyUpdates(store[id], updates)]
    ELSE store

Slots == 1..MaxCreate

\* PUT /api/users/:id
PutUser(caller, id, body) ==
    /\ IF RoleRejected(body)
       THEN /\ users' = users
            /\ audit' = [op |-> "put", caller |-> caller, status |-> 400]
       ELSE LET updates == FilteredUpdates(NormalizedBody(body))
            IN  /\ users' = UpdatedStore(users, id, updates)
                /\ audit' = [op |-> "put", caller |-> caller, status |-> UpdateStatus(users, id, updates)]
    /\ UNCHANGED <<creq, now, issued, tokenBlacklist, timers, pwreq, revokedLog, req, nodeEnv, questions, exams, files, disk, dreq>>

\* PATCH /api/users/:id/role
PatchUserRole(caller, id, body) ==
    /\ IF RoleRejected(body)
       THEN /\ users' = users
            /\ audit' = [op |-> "patch-role", caller |-> caller, status |-> 400]
       ELSE LET nb == NormalizedBody(body)
                updates == [k \in (DOMAIN nb) \cap {"role"} |-> nb[k]]
            IN  /\ users' = UpdatedStore(users, id, updates)
                /\ audit' = [op |-> "patch-role", caller |-> caller, status |-> UpdateStatus(users, id, updates)]
    /\ UNCHANGED <<creq, now, issued, tokenBlacklist, timers, pwreq, revokedLog, req, nodeEnv, questions, exams, files, disk, dreq>>

\* DELETE /api/users/:id: findByIdAndDelete
DeleteUser(caller, id) ==
    /\ users' = [s \in (DOMAIN users) \ {id} |-> users[s]]
    /\ audit' = [op |-> "delete", caller |-> caller, status |-> IF id \in DOMAIN users THEN 200 ELSE 404]
    /\ UNCHANGED <<creq, now, issued, tokenBlacklist, timers, pwreq, revokedLog, req, nodeEnv, questions, exams, files, disk, dreq>>

\* DELETE /api/cleanup/:identifier: deleteOne by username or email
Cleanup(caller, identifier) ==
    /\ LET hit == {s \in DOMAIN users : users[s].username = identifier}
       IN  users' = [s \in (DOMAIN users) \ hit |-> users[s]]
    /\ audit' = [op |-> "cleanup", caller |-> caller, status |-> 200]
    /\ UNCHANGED <<creq, now, issued, tokenBlacklist, timers, pwreq, revokedLog, req, nodeEnv, questions, exams, files, disk, dreq>>

\* DELETE and GET /api/clear-all-users: deleteMany({}) unless in production
ClearAllUsers(caller) ==
    /\ IF nodeEnv = "production"
       THEN /\ users' = users
            /\ audit' = [op |-> "clear-all", caller |-> caller, status |-> 403]
       ELSE /\ users' = [s \in {} |-> 0]
            /\ audit' = [op |-> "clear-all", caller |-> caller, status |-> 200]
    /\ UNCHANGED <<creq, now, issued, tokenBlacklist, timers, pwreq, revokedLog, req, nodeEnv, questions, exams, files, disk, dreq>>

\* PUT /api/admin/users/:id/role: the handler throws before it reaches the
\* collection (require and the uninitialised const user), so it answers 500
\* whenever the middleware in front of it lets the request through
AdminPutUserRole(caller, status) ==
    /\ status \in {401, 403, 500}
    /\ users' = users
    /\ audit' = [op |-> "admin-role", caller |-> caller, status |-> status]
    /\ UNCHANGED <<creq, now, issued, tokenBlacklist, timers, pwreq, revokedLog, req, nodeEnv, questions, exams, files, disk, dreq>>

----------------------------------------------------------------------------------------------------------------------------------------
(* Concurrent creations, with npk and role edits through PUT /api/users/:id *)

NoAudit == [op |-> "none", caller |-> "anonymous", status |-> 0]

NoStore == [s \in {} |-> 0]

NoReq == [pc |-> "none", n |-> 0]

InitRest ==
    /\ now = 0
    /\ issued = {}
    /\ tokenBlacklist = {}
    /\ timers = {}
    /\ pwreq = {}
    /\ revokedLog = {}
    /\ req = NoReq
    /\ audit = NoAudit
    /\ nodeEnv = "development"
    /\ questions = <<>>
    /\ exams = <<>>
    /\ files = NoStore
    /\ disk = {}
    /\ dreq = <<>>

InitCreate ==
    /\ users = NoStore
    /\ creq = [r \in CreateReqs |-> IdleReq]
    /\ InitRest

NextCreate ==
    \/ \E r \in CreateReqs, userData \in CreateInputs : SaveValidate(r, userData)
    \/ \E r \in CreateReqs : SaveNpkHook(r)
    \/ \E r \in CreateReqs : SaveInsert(r)
    \/ \E id \in Slots, body \in PutBodies : PutUser("anonymous", id, body)

SpecCreate == InitCreate /\ [][NextCreate]_vars

----------------------------------------------------------------------------
(* The users routes over a store that earlier creations have filled *)

SeedUsers ==
    [s \in 1..2 |->
        IF s = 1
        THEN [username |-> Username(1), email |-> Email(1), password |-> Hash(Password), role |-> "admin",
              permissions |-> {}, isActive |-> TRUE]
        ELSE [username |-> Username(2), email |-> Email(2), password |-> Hash(Password), role |-> "perawat",
              permissions |-> {}, isActive |-> TRUE, unit |-> UnitICU, npk |-> NPK(1)]]

InitUsers ==
    /\ users = SeedUsers
    /\ creq = [r \in CreateReqs |-> IdleReq]
    /\ now = 0
    /\ issued = {}
    /\ tokenBlacklist = {}
    /\ timers = {}
    /\ pwreq = {}
    /\ revokedLog = {}
    /\ questions = <<>>
    /\ exams = <<>>
    /\ files = NoStore
    /\ disk = {}
    /\ dreq = <<>>
    /\ req = NoReq
    /\ audit = NoAudit
    /\ nodeEnv \in {"production", "development"}

NextUsers ==
    \/ \E c \in Callers, id \in Slots, body \in PutBodies : PutUser(c, id, body)
    \/ \E c \in Callers, id \in Slots, body \in PutBodies : PatchUserRole(c, id, body)
    \/ \E c \in Callers, id \in Slots : DeleteUser(c, id)
    \/ \E c \in Callers, u \in 1..2 : Cleanup(c, Username(u))
    \/ \E c \in Callers : ClearAllUsers(c)
    \/ \E c \in Callers, status \in {401, 403, 500} : AdminPutUserRole(c, status)

SpecUsers == InitUsers /\ [][NextUsers]_vars

----------------------------------------------------------------------------
(* Session tokens (exams.js:632-1035): POST /login signs a token, the       *)
(* verifyToken middleware checks it, POST /logout and PUT /update-password  *)
(* hand it to addTokenToBlacklist, whose timer evicts it at its expiry.     *)
(* A token is its payload, its iat/exp and the validity of its signature:   *)
(* two tokens signed for the same payload in the same clock unit are the    *)
(* same string.                                                             *)

TokenTTL == 2       \* expiresIn: "24h", in clock units of 12 hours

Password2 == <<"n", "e", "w", "s", "e", "c", "r", "3">>

\* bcrypt.compare(plain, hash)
Compare(plain, hash) == hash = Hash(plain)

\* jwt.sign({ user: userPayload }, JWT_SECRET, { expiresIn: "24h" })
Sign(u, doc, at) ==
    [shape |-> "user", uid |-> u, username |-> doc.username, email |-> doc.email,
     role |-> doc.role, permissions |-> doc.permissions,
     iat |-> at, exp |-> at + TokenTTL, sig |-> "ok"]

\* a signed token whose payload is flat and carries the optional claims unit and fullName
FlatToken(u, doc, at) ==
    [shape |-> "flat", uid |-> u, username |-> doc.username, email |-> doc.email,
     role |-> doc.role, permissions |-> doc.permissions, unit |-> UnitICU, fullName |-> doc.username,
     iat |-> at, exp |-> at + TokenTTL, sig |-> "ok"]

\* a token nobody signed: a payload of the attacker's choice under a signature that does not verify
Forge(t) == [t EXCEPT !.role = "admin", !.sig = "bad"]

\* the tokens a client can put into the Authorization header
Presentable == issued \cup {Forge(t) : t \in issued}

\* jwt.verify(token, JWT_SECRET): "ok", or the name of the error it throws
JwtVerify(t, at) ==
    IF t.sig # "ok" THEN "JsonWebTokenError"
    ELSE IF at >= t.exp THEN "TokenExpiredError"
    ELSE "ok"

isTokenBlacklisted(t) == t \in tokenBlacklist

\* verifyToken without its look into the blacklist
verifyToken_NoBlacklist(t) == IF JwtVerify(t, now) # "ok" THEN 401 ELSE 0

\* verifyToken: the status it answers, 0 when it calls next
verifyToken(t) ==
    IF isTokenBlacklisted(t) THEN 401
    ELSE IF JwtVerify(t, now) # "ok" THEN 401
    ELSE 0

ObjectId(u) == <<"ObjectId", u>>

Uuid(u) == <<"uuid", u>>

NoToken == [shape |-> "none"]

NoUserData == [role |-> "undefined"]

\* decoded.user: the claims the issuer put under the key user
UserClaims(t) ==
    [k \in {"id"} \cup ((DOMAIN t) \cap {"username", "email", "role", "permissions", "unit", "fullName"}) |->
        IF k = "id" THEN ObjectId(t.uid) ELSE t[k]]

\* authenticateToken (roleAuth.js:13-71): the status it answers (0 when it
\* calls next), whether it calls next, and the req.user it attaches
authenticateToken(t) ==
    IF t = NoToken THEN [status |-> 401, next |-> FALSE, user |-> NoUserData]
    ELSE IF JwtVerify(t, now) # "ok" THEN [status |-> 403, next |-> FALSE, user |-> NoUserData]
    ELSE IF t.shape = "user"
         THEN IF ~Has(t, "role") THEN [status |-> 403, next |-> FALSE, user |-> NoUserData]
              ELSE [status |-> 0, next |-> TRUE, user |-> UserClaims(t)]
    ELSE IF t.shape = "flat"
         THEN [status |-> 0, next |-> TRUE,
               user |-> [id |-> ObjectId(t.uid), email |-> t.email, role |-> t.role, username |-> t.username,
                         unit |-> t.unit, fullName |-> t.fullName, permissions |-> t.permissions]]
    ELSE [status |-> 403, next |-> FALSE, user |-> NoUserData]

\* addTokenToBlacklist: the set after add, and the timer set for the token's exp
BlacklistAfterAdd(t) == tokenBlacklist \cup {t}

\* addTokenToBlacklist without its setTimeout
TimersAfterAdd_NoTimer(t) == timers

TimersAfterAdd(t) == timers \cup {[token |-> t, at |-> t.exp]}

\* POST /login
Login(u, pw) ==
    /\ Cardinality(issued) < MaxTokens
    /\ IF u \in DOMAIN users /\ users[u].isActive /\ Compare(pw, users[u].password)
       THEN /\ users' = [users EXCEPT ![u] = Put(@, "lastLogin", now)]
            /\ issued' = issued \cup {Sign(u, users[u], now)}
       ELSE UNCHANGED <<users, issued>>
    /\ UNCHANGED <<creq, now, tokenBlacklist, timers, pwreq, revokedLog, req, audit, nodeEnv, questions, exams, files, disk, dreq>>

\* POST /logout: verifyToken, then addTokenToBlacklist(req.token)
Logout(t) ==
    /\ IF verifyToken(t) = 0
       THEN /\ tokenBlacklist' = BlacklistAfterAdd(t)
            /\ timers' = TimersAfterAdd(t)
            /\ revokedLog' = revokedLog \cup {t}
       ELSE UNCHANGED <<tokenBlacklist, timers, revokedLog>>
    /\ UNCHANGED <<users, creq, now, issued, pwreq, req, audit, nodeEnv, questions, exams, files, disk, dreq>>

\* PUT /update-password up to its first await: verifyToken, then findById
UpdatePasswordStart(t, currentPassword) ==
    /\ verifyToken(t) = 0
    /\ pwreq' = pwreq \cup {[token |-> t, currentPassword |-> currentPassword]}
    /\ UNCHANGED <<users, creq, now, issued, tokenBlacklist, timers, revokedLog, req, audit, nodeEnv, questions, exams, files, disk, dreq>>

\* PUT /update-password after the awaits: compare, user.password = hash, user.save()
\* (whose pre("save") hook hashes the modified password once more), blacklist the token
UpdatePasswordFinish(p) ==
    /\ p \in pwreq
    /\ pwreq' = pwreq \ {p}
    /\ IF /\ p.token.uid \in DOMAIN users
          /\ Compare(p.currentPassword, users[p.token.uid].password)
          /\ SaveErrors(users[p.token.uid]) = {}
       THEN /\ users' = [users EXCEPT ![p.token.uid].password = Hash(Hash(Password2))]
            /\ tokenBlacklist' = BlacklistAfterAdd(p.token)
            /\ timers' = TimersAfterAdd(p.token)
            /\ revokedLog' = revokedLog \cup {p.token}
       ELSE UNCHANGED <<users, tokenBlacklist, timers, revokedLog>>
    /\ UNCHANGED <<creq, now, issued, req, audit, nodeEnv, questions, exams, files, disk, dreq>>

\* the setTimeout callback of addTokenToBlacklist: tokenBlacklist.delete(token)
TimerFire(tm) ==
    /\ tm \in timers
    /\ now >= tm.at
    /\ timers' = timers \ {tm}
    /\ tokenBlacklist' = tokenBlacklist \ {tm.token}
    /\ UNCHANGED <<users, creq, now, issued, pwreq, revokedLog, req, audit, nodeEnv, questions, exams, files, disk, dreq>>

Tick ==
    /\ now < MaxTime
    /\ now' = now + 1
    /\ UNCHANGED <<users, creq, issued, tokenBlacklist, timers, pwreq, revokedLog, req, audit, nodeEnv, questions, exams, files, disk, dreq>>

InitSession ==
    /\ users = SeedUsers
    /\ creq = [r \in CreateReqs |-> IdleReq]
    /\ InitRest

NextSession ==
    \/ \E u \in DOMAIN users, pw \in {Password, Password2} : Login(u, pw)
    \/ \E t \in Presentable : Logout(t)
    \/ \E t \in Presentable, pw \in {Password, Password2} : UpdatePasswordStart(t, pw)
    \/ \E p \in pwreq : UpdatePasswordFinish(p)
    \/ \E tm \in timers : TimerFire(tm)
    \/ Tick

SpecSession == InitSession /\ [][NextSession]_vars

\* the requests that can put a token into the blacklist, sent with tokens the server signed
NextRevoke ==
    \/ Login(1, Password)
    \/ \E t \in issued : Logout(t)
    \/ \E t \in issued : UpdatePasswordStart(t, Password)
    \/ \E p \in pwreq : UpdatePasswordFinish(p)
    \/ \E tm \in timers : TimerFire(tm)
    \/ Tick

\* the event loop runs every timer that is due, and the clock moves on
SpecSessionLive ==
    /\ InitSession
    /\ [][NextRevoke]_vars
    /\ WF_vars(Tick)
    /\ WF_vars(\E tm \in timers : TimerFire(tm))

----------------------------------------------------------------------------
(* The role policy table (config/roles.js) and the stages of roleAuth.js.   *)
(* A stage's outcome is the status it answers (0 when it answers nothing)   *)
(* and whether it calls next.                                               *)

\* rolePermissions[role] || []
rolePermissions(role) ==
    IF role = "admin" THEN PermissionTags
    ELSE IF role = "mitra" THEN {"view_credentials", "create_credentials", "edit_credentials", "view_reports"}
    ELSE IF role = "perawat" THEN {"view_credentials", "create_credentials"}
    ELSE {}

\* roleHierarchy[role] || 0, the table inside requireMinimumRole
roleHierarchy(role) ==
    IF role = "perawat" THEN 1 ELSE IF role = "mitra" THEN 2 ELSE IF role = "admin" THEN 3 ELSE 0

\* hasPermission without the look at the user's own permissions
hasPermission_RoleOnly(userRole, userPermissions, requiredPerm) == requiredPerm \in rolePermissions(userRole)

hasPermission(userRole, userPermissions, requiredPerm) ==
    IF requiredPerm \in rolePermissions(userRole) THEN TRUE
    ELSE IF requiredPerm \in userPermissions THEN TRUE
    ELSE FALSE

Answer(status) == [status |-> status, next |-> FALSE]

CallNext == [status |-> 0, next |-> TRUE]

\* an answer together with the fields of its JSON body that the model keeps
AnswerBody(status, body) == [status |-> status, next |-> FALSE, body |-> body]

NoBody == [message |-> <<>>]

\* roles.js getRoleRedirectUrl: roleRedirects[role] || "/"
getRoleRedirectUrl(role) ==
    IF role = "admin" THEN "/dashboard-kepala-unit"
    ELSE IF role = "mitra" THEN "/dashboard-mitra-bestari"
    ELSE IF role = "perawat" THEN "/dashboard-perawat"
    ELSE "/"

\* roles.js getRoleLevel: roleHierarchy[role] || 0
getRoleLevel(role) ==
    IF role = "perawat" THEN 1 ELSE IF role = "mitra" THEN 2 ELSE IF role = "admin" THEN 3 ELSE 0

\* roles.js getMenuAccess: menuAccess[role] || []
getMenuAccess(role) ==
    IF role = "admin" THEN {"dashboard", "credentials", "users", "reports", "settings", "profile"}
    ELSE IF role = "mitra" THEN {"dashboard", "credentials", "reports", "profile"}
    ELSE IF role \in {"perawat", "nurse"} THEN {"dashboard", "credentials", "profile"}
    ELSE {}

\* the tables of roles.js that have a key for the role
PolicyEntries(role) ==
    {tb \in {"rolePermissions", "menuAccess", "roleHierarchy", "roleRedirects"} :
        \/ role \in {"admin", "mitra", "perawat"}
        \/ tb = "menuAccess" /\ role = "nurse"}

\* requireMinimumRole with a level table of its own that ranks mitra below perawat
requireMinimumRole_OwnTable(minimumRole, user) ==
    LET level(r) == IF r = "perawat" THEN 2 ELSE IF r = "mitra" THEN 1 ELSE IF r = "admin" THEN 3 ELSE 0
    IN  IF user = NoUserData THEN Answer(401)
        ELSE IF level(user.role) < level(minimumRole) THEN Answer(403)
        ELSE CallNext

\* a stage that answers 403 and goes on to call next
requireRole_NoReturn(allowedRoles, user) ==
    IF user = NoUserData THEN Answer(401)
    ELSE IF user.role \notin allowedRoles THEN [status |-> 403, next |-> TRUE]
    ELSE CallNext

requireRole(allowedRoles, user) ==
    IF user = NoUserData THEN Answer(401)
    ELSE IF user.role = "" THEN Answer(403)
    ELSE IF user.role \notin allowedRoles
         THEN AnswerBody(403, [message |-> <<"Insufficient permissions. Required roles: ", allowedRoles>>,
                               userRole |-> user.role])
    ELSE CallNext

requireMinimumRole(minimumRole, user) ==
    IF user = NoUserData THEN Answer(401)
    ELSE IF roleHierarchy(user.role) < roleHierarchy(minimumRole)
         THEN AnswerBody(403, [message |-> <<"Access denied. Minimum role required: ", minimumRole>>,
                               redirectUrl |-> getRoleRedirectUrl(user.role),
                               userRole |-> user.role, minimumRole |-> minimumRole])
    ELSE CallNext

\* checkMinimumRole (roleAuth.js:288-299), with the same table of its own
checkMinimumRole(userRole, minimumRole) == roleHierarchy(userRole) >= roleHierarchy(minimumRole)

requiredPermission(permission, user) ==
    IF user = NoUserData THEN Answer(401)
    ELSE IF ~hasPermission(user.role, user.permissions, permission)
         THEN AnswerBody(403, [message |-> <<"Access denied. Permission required: ", permission>>,
                               redirectUrl |-> getRoleRedirectUrl(user.role), userRole |-> user.role])
    ELSE CallNext

\* User.findById(id): "CastError" for an id that is no ObjectId, else the slot or 0 for null
findById(id) == IF id[1] # "ObjectId" THEN "CastError" ELSE "found"

\* User.findActiveById(id): { $or: [{ _id: id }, { id: id }], isActive: true }
findActiveById(id) == IF id[1] # "ObjectId" THEN "CastError" ELSE "found"

IsActiveRecord(store, id) == id[2] \in DOMAIN store /\ store[id[2]].isActive

\* refreshUserData with the token's claims kept as req.user
RefreshedUser_KeepsClaims(u, foundUser, user) == user

\* the req.user that refreshUserData builds from the record it loaded
RefreshedUser(u, foundUser, user) ==
    LET base == [id |-> Uuid(u), username |-> foundUser.username, email |-> foundUser.email,
                 fullName |-> IF Has(foundUser, "fullName") THEN foundUser.fullName ELSE <<>>,
                 role |-> foundUser.role, permissions |-> foundUser.permissions,
                 isActive |-> foundUser.isActive]
        withNpk == IF Has(foundUser, "npk") THEN Put(base, "npk", foundUser.npk) ELSE base
    IN  IF Has(foundUser, "lastLogin") THEN Put(withNpk, "lastLogin", foundUser.lastLogin) ELSE withNpk

Stage(kind, arg) == [kind |-> kind, arg |-> arg]

\* authorize(options): the middleware array
authorize(options) ==
    <<Stage("authenticate", "")>>
    \o (IF Has(options, "refreshUserData") /\ options.refreshUserData THEN <<Stage("refresh", "")>> ELSE <<>>)
    \o (IF ~(Has(options, "activeuser") /\ options.activeuser = FALSE) THEN <<Stage("active", "")>> ELSE <<>>)
    \o (IF Has(options, "roles") THEN <<Stage("role", options.roles)>> ELSE <<>>)
    \o (IF Has(options, "minimumRole") THEN <<Stage("minRole", options.minimumRole)>> ELSE <<>>)
    \o (IF Has(options, "permissions")
        THEN [i \in 1..Len(options.permissions) |-> Stage("perm", options.permissions[i])]
        ELSE <<>>)

\* the options the routes of the model are built with
ChainOptions ==
    {[activeuser |-> TRUE],
     [refreshUserData |-> TRUE],
     [refreshUserData |-> TRUE, activeuser |-> FALSE, roles |-> {"admin"}],
     [refreshUserData |-> TRUE, activeuser |-> FALSE, minimumRole |-> "mitra",
      permissions |-> <<"view_credentials", "manage_users">>],
     [activeuser |-> FALSE, roles |-> {"admin", "perawat"}, permissions |-> <<"manage_users">>]}

NoDoc == [role |-> "undefined"]

NoLast == [kind |-> "", arg |-> "", next |-> FALSE, status |-> 0]

\* express: a request enters the chain that authorize(options) built
StartRequest(options, t) ==
    /\ req.pc # "run"
    /\ req.n < MaxChain
    /\ req' = [pc |-> "run", n |-> req.n + 1, chain |-> authorize(options), pos |-> 1, token |-> t,
               user |-> NoUserData, userDetails |-> NoDoc, sub |-> "", trace |-> <<>>,
               nresp |-> 0, status |-> 0, body |-> NoBody, handlerRan |-> FALSE, last |-> NoLast]
    /\ UNCHANGED <<users, creq, now, issued, tokenBlacklist, timers, pwreq, revokedLog, audit, nodeEnv, questions, exams, files, disk, dreq>>

AtStage(kind) ==
    /\ req.pc = "run"
    /\ req.pos <= Len(req.chain)
    /\ req.chain[req.pos].kind = kind

\* express: the stage has returned; next() runs the following stage, a response ends the stage
Ran(o, user, details) ==
    req' = [req EXCEPT !.trace = Append(@, req.pos),
                       !.nresp = @ + (IF o.status # 0 THEN 1 ELSE 0),
                       !.status = IF o.status # 0 THEN o.status ELSE @,
                       !.body = IF Has(o, "body") THEN o.body ELSE @,
                       !.pos = IF o.next THEN @ + 1 ELSE @,
                       !.pc = IF o.next THEN "run" ELSE "done",
                       !.sub = "",
                       !.user = user,
                       !.userDetails = details,
                       !.last = [kind |-> req.chain[req.pos].kind, arg |-> req.chain[req.pos].arg,
                                 next |-> o.next, status |-> o.status]]

Authenticate ==
    /\ AtStage("authenticate")
    /\ LET o == authenticateToken(req.token)
       IN  Ran([status |-> o.status, next |-> o.next], o.user, req.userDetails)
    /\ UNCHANGED <<users, creq, now, issued, tokenBlacklist, timers, pwreq, revokedLog, audit, nodeEnv, questions, exams, files, disk, dreq>>

RefreshUserData ==
    /\ AtStage("refresh")
    /\ IF req.user = NoUserData THEN Ran(Answer(401), req.user, req.userDetails)
       ELSE IF findActiveById(req.user.id) = "CastError" THEN Ran(Answer(500), req.user, req.userDetails)
       ELSE IF ~IsActiveRecord(users, req.user.id) THEN Ran(Answer(403), req.user, req.userDetails)
       ELSE LET u == req.user.id[2]
            IN  Ran(CallNext, RefreshedUser(u, users[u], req.user), users[u])
    /\ UNCHANGED <<users, creq, now, issued, tokenBlacklist, timers, pwreq, revokedLog, audit, nodeEnv, questions, exams, files, disk, dreq>>

\* requireActiveUser up to "await User.findById(req.user.id)"
RequireActiveUserFind ==
    /\ AtStage("active")
    /\ req.sub = ""
    /\ IF req.user = NoUserData THEN Ran(Answer(401), req.user, req.userDetails)
       ELSE IF findById(req.user.id) = "CastError" THEN Ran(Answer(500), req.user, req.userDetails)
       ELSE IF req.user.id[2] \notin DOMAIN users THEN Ran(Answer(403), req.user, req.userDetails)
       ELSE req' = [req EXCEPT !.sub = "found", !.userDetails = users[req.user.id[2]]]
    /\ UNCHANGED <<users, creq, now, issued, tokenBlacklist, timers, pwreq, revokedLog, audit, nodeEnv, questions, exams, files, disk, dreq>>

\* requireActiveUser from "await foundUser.updateLastLogin()" on
RequireActiveUserSave ==
    /\ AtStage("active")
    /\ req.sub = "found"
    /\ LET u == req.user.id[2]
           foundUser == Put(req.userDetails, "lastLogin", now)
       IN  IF SaveErrors(foundUser) # {} \/ u \notin DOMAIN users
           THEN /\ Ran(Answer(500), req.user, req.userDetails)
                /\ users' = users
           ELSE /\ Ran(CallNext, req.user, foundUser)
                /\ users' = [users EXCEPT ![u] = Put(@, "lastLogin", now)]
    /\ UNCHANGED <<creq, now, issued, tokenBlacklist, timers, pwreq, revokedLog, audit, nodeEnv, questions, exams, files, disk, dreq>>

RequireRole ==
    /\ AtStage("role")
    /\ Ran(requireRole(req.chain[req.pos].arg, req.user), req.user, req.userDetails)
    /\ UNCHANGED <<users, creq, now, issued, tokenBlacklist, timers, pwreq, revokedLog, audit, nodeEnv, questions, exams, files, disk, dreq>>

RequireMinimumRole ==
    /\ AtStage("minRole")
    /\ Ran(requireMinimumRole(req.chain[req.pos].arg, req.user), req.user, req.userDetails)
    /\ UNCHANGED <<users, creq, now, issued, tokenBlacklist, timers, pwreq, revokedLog, audit, nodeEnv, questions, exams, files, disk, dreq>>

RequiredPermission ==
    /\ AtStage("perm")
    /\ Ran(requiredPermission(req.chain[req.pos].arg, req.user), req.user, req.userDetails)
    /\ UNCHANGED <<users, creq, now, issued, tokenBlacklist, timers, pwreq, revokedLog, audit, nodeEnv, questions, exams, files, disk, dreq>>

\* express: every stage called next, the route handler runs and answers
Handler ==
    /\ req.pc = "run"
    /\ req.pos = Len(req.chain) + 1
    /\ req' = [req EXCEPT !.pc = "done", !.handlerRan = TRUE, !.nresp = @ + 1,
                          !.status = IF @ = 0 THEN 200 ELSE @]
    /\ UNCHANGED <<users, creq, now, issued, tokenBlacklist, timers, pwreq, revokedLog, audit, nodeEnv, questions, exams, files, disk, dreq>>

\* User.prototype.softDelete: this.isActive = false; this.save()
SoftDelete(u) ==
    /\ u \in DOMAIN users
    /\ users[u].isActive
    /\ SaveErrors(users[u]) = {}
    /\ users' = [users EXCEPT ![u].isActive = FALSE]
    /\ audit' = [op |-> "softDelete", caller |-> "model", status |-> 0]
    /\ UNCHANGED <<creq, now, issued, tokenBlacklist, timers, pwreq, revokedLog, req, nodeEnv, questions, exams, files, disk, dreq>>

\* the store and the tokens after both seeded users have logged in
InitChain ==
    /\ users = SeedUsers
    /\ creq = [r \in CreateReqs |-> IdleReq]
    /\ now = 0
    /\ issued = {Sign(u, SeedUsers[u], 0) : u \in DOMAIN SeedUsers}
    /\ tokenBlacklist = {}
    /\ timers = {}
    /\ pwreq = {}
    /\ revokedLog = {}
    /\ req = NoReq
    /\ audit = NoAudit
    /\ nodeEnv = "development"
    /\ questions = <<>>
    /\ exams = <<>>
    /\ files = NoStore
    /\ disk = {}
    /\ dreq = <<>>

NextChain ==
    \/ \E options \in ChainOptions, t \in Presentable \cup {NoToken, FlatToken(2, SeedUsers[2], 0)} :
          StartRequest(options, t)
    \/ Authenticate
    \/ RefreshUserData
    \/ RequireActiveUserFind
    \/ RequireActiveUserSave
    \/ RequireRole
    \/ RequireMinimumRole
    \/ RequiredPermission
    \/ Handler
    \/ \E u \in DOMAIN users : SoftDelete(u)
    \/ \E id \in DOMAIN SeedUsers, body \in {[role |-> "ADMIN"], [role |-> "perawat"]} : PatchUserRole("anonymous", id, body)
    \/ \E id \in DOMAIN SeedUsers : DeleteUser("anonymous", id)

SpecChain == InitChain /\ [][NextChain]_vars

----------------------------------------------------------------------------
(* One gate applied to a request whose claims authenticateToken attached:   *)
(* every role, a few record-level permission sets, every gate argument.     *)

PolicyPermissionSets == SUBSET {"manage_users", "view_reports"}

PolicyStages ==
    {Stage("perm", tag) : tag \in PermissionTags}
    \cup {Stage("role", allowed) : allowed \in {{"admin"}, {"admin", "mitra"}}}
    \cup {Stage("minRole", r) : r \in Roles}

InitPolicy ==
    /\ users = SeedUsers
    /\ creq = [r \in CreateReqs |-> IdleReq]
    /\ now = 0
    /\ issued = {}
    /\ tokenBlacklist = {}
    /\ timers = {}
    /\ pwreq = {}
    /\ revokedLog = {}
    /\ audit = NoAudit
    /\ nodeEnv = "development"
    /\ questions = <<>>
    /\ exams = <<>>
    /\ files = NoStore
    /\ disk = {}
    /\ dreq = <<>>
    /\ \E role \in Roles, permissions \in PolicyPermissionSets, stage \in PolicyStages :
          req = [pc |-> "run", n |-> 1, chain |-> <<Stage("authenticate", ""), stage>>, pos |-> 2,
                 token |-> NoToken, user |-> [id |-> ObjectId(1), role |-> role, permissions |-> permissions],
                 userDetails |-> NoDoc, sub |-> "", trace |-> <<1>>, nresp |-> 0, status |-> 0, body |-> NoBody,
                 handlerRan |-> FALSE,
                 last |-> [kind |-> "authenticate", arg |-> "", next |-> TRUE, status |-> 0]]

NextPolicy ==
    \/ RequireRole
    \/ RequireMinimumRole
    \/ RequiredPermission
    \/ Handler

SpecPolicy == InitPolicy /\ [][NextPolicy]_vars

----------------------------------------------------------------------------
(* The statics and methods of the User model (part_000:206-343, 425-433):   *)
(* the active-record queries, updateUser and softDelete.  A query result is *)
(* the slot of the record found, 0 for null.                                *)

\* findOne({ username, isActive: true }) with the isActive condition left out
findByUsername_AnyState(store, username) ==
    IF \E s \in DOMAIN store : store[s].username = username
    THEN CHOOSE s \in DOMAIN store : store[s].username = username
    ELSE 0

findByUsername(store, username) ==
    IF \E s \in DOMAIN store : store[s].username = username /\ store[s].isActive
    THEN CHOOSE s \in DOMAIN store : store[s].username = username /\ store[s].isActive
    ELSE 0

findByEmail(store, email) ==
    IF \E s \in DOMAIN store : store[s].email = email /\ store[s].isActive
    THEN CHOOSE s \in DOMAIN store : store[s].email = email /\ store[s].isActive
    ELSE 0

\* findActiveById: the slot found, 0 for null, "CastError" when the query throws
ActiveById(store, id) ==
    IF findActiveById(id) = "CastError" THEN "CastError"
    ELSE IF IsActiveRecord(store, id) THEN id[2]
    ELSE 0

\* the "i" flag of new RegExp(filters.search, "i") on the letters the model uses
LowerChar(c) ==
    IF c = "N" THEN "n" ELSE IF c = "P" THEN "p" ELSE IF c = "K" THEN "k"
    ELSE IF c = "I" THEN "i" ELSE IF c = "C" THEN "c" ELSE IF c = "U" THEN "u" ELSE c

Lower(v) == [i \in 1..Len(v) |-> LowerChar(v[i])]

\* searchRegex.test(v) for a search string without regex operators
RegexTest(search, v) ==
    \E i \in 1..(Len(v) - Len(search) + 1) : SubSeq(Lower(v), i, i + Len(search) - 1) = Lower(search)

SearchHit(d, search) ==
    \/ RegexTest(search, d.username)
    \/ RegexTest(search, d.email)
    \/ Has(d, "npk") /\ RegexTest(search, d.npk)

\* the query findAllWithFilters builds
FilterQuery(store, filters) ==
    {s \in DOMAIN store :
        /\ store[s].isActive
        /\ Has(filters, "role") => store[s].role = filters.role
        /\ Has(filters, "unit") => (Has(store[s], "unit") /\ store[s].unit = filters.unit)
        /\ Has(filters, "search") => SearchHit(store[s], filters.search)}

\* sort({ createdAt: -1 }): slots are given out in creation order
RECURSIVE SortedDesc(_)
SortedDesc(S) ==
    IF S = {} THEN <<>>
    ELSE LET m == CHOOSE x \in S : \A y \in S : y <= x
         IN  <<m>> \o SortedDesc(S \ {m})

\* parseInt(filters.page) || 1, parseInt(filters.limit) || 20
PageOf(filters) ==
    IF Has(filters, "page") /\ parseInt(filters.page) > 0 THEN parseInt(filters.page) ELSE 1

LimitOf(filters) ==
    IF Has(filters, "limit") /\ parseInt(filters.limit) > 0 THEN parseInt(filters.limit) ELSE 20

\* findAllWithFilters: the users of the page
findAllWithFilters(store, filters) ==
    LET all == SortedDesc(FilterQuery(store, filters))
        skip == (PageOf(filters) - 1) * LimitOf(filters)
        last == IF skip + LimitOf(filters) < Len(all) THEN skip + LimitOf(filters) ELSE Len(all)
    IN  SubSeq(all, skip + 1, last)

FilterInputs ==
    {[role |-> "perawat"], [unit |-> UnitICU], [search |-> <<"n", "p", "k">>], [search |-> <<"@">>],
     [page |-> <<"1">>, limit |-> <<"1">>], [page |-> <<"2">>, limit |-> <<"1">>],
     [page |-> <<"x">>]}

allowedUpdates == {"username", "email", "fullName", "role", "unit", "npk", "permissions", "isActive"}

\* the reduce over Object.keys(updateData)
AllowedOf(updateData) == [k \in (DOMAIN updateData) \cap allowedUpdates |-> updateData[k]]

\* runValidators on the paths updateUser may set
UpdateUserInvalid(updates) ==
    \/ UpdateInvalid(updates)
    \/ Has(updates, "username") /\ (Len(updates.username) < 3 \/ Len(updates.username) > 30)
    \/ Has(updates, "email") /\ ~MatchesEmail(updates.email)

\* updateUser: "" when it returns the user, else the error it throws
UpdateUserError(store, userId, updateData) ==
    IF DOMAIN AllowedOf(updateData) = {} THEN "No valid fields to update"
    ELSE IF userId[1] # "ObjectId" THEN "CastError"
    ELSE IF UpdateUserInvalid(AllowedOf(updateData)) THEN "ValidationError"
    ELSE IF userId[2] \notin DOMAIN store THEN "User not found"
    ELSE IF DuplicateKeys(store, userId[2], AllowedOf(updateData)) # {} THEN "already exists"
    ELSE ""

UserIds == {ObjectId(1), ObjectId(2), ObjectId(3), Uuid(1)}

UpdateDatas ==
    {[isActive |-> TRUE], [isActive |-> FALSE], [role |-> "mitra"], [role |-> "kepala-unit"],
     [email |-> Email(1)],
     [npk |-> <<"0", "0", "0", "1">>], [permissions |-> {"manage_users"}],
     [password |-> Password2],
     [role |-> "admin", password |-> Password2, lastLogin |-> 9]}

\* User.updateUser(userId, updateData)
UpdateUser(userId, updateData) ==
    /\ users' = IF UpdateUserError(users, userId, updateData) = ""
                THEN [users EXCEPT ![userId[2]] = ApplyUpdates(@, AllowedOf(updateData))]
                ELSE users
    /\ audit' = [op |-> "updateUser", caller |-> "model", status |-> 0, userId |-> userId,
                 updateData |-> updateData, error |-> UpdateUserError(users, userId, updateData)]
    /\ UNCHANGED <<creq, now, issued, tokenBlacklist, timers, pwreq, revokedLog, req, nodeEnv, questions, exams, files, disk, dreq>>

\* userSchema.methods.updateLastLogin (part_000:415-423): this.lastLogin =
\* new Date(); return this.save(). save() validates the loaded document, so a
\* record that no longer satisfies the schema makes the call reject.
UpdateLastLogin(u) ==
    LET doc == Put(users[u], "lastLogin", now)
        error == IF SaveErrors(doc) # {} THEN "ValidationError" ELSE ""
    IN  /\ users' = IF error = "" THEN [users EXCEPT ![u] = doc] ELSE users
        /\ audit' = [op |-> "updateLastLogin", caller |-> "model", status |-> 0, userId |-> ObjectId(u),
                     paths |-> SaveErrors(doc), error |-> error]
        /\ UNCHANGED <<creq, now, issued, tokenBlacklist, timers, pwreq, revokedLog, req, nodeEnv, questions, exams, files, disk, dreq>>

InitStatics ==
    /\ InitRest
    /\ users = SeedUsers
    /\ creq = [r \in CreateReqs |-> IdleReq]

NextStatics ==
    \/ \E u \in DOMAIN users : SoftDelete(u)
    \/ \E userId \in UserIds, updateData \in UpdateDatas : UpdateUser(userId, updateData)
    \/ \E u \in DOMAIN users : UpdateLastLogin(u)

SpecStatics == InitStatics /\ [][NextStatics]_vars

----------------------------------------------------------------------------
(* The two login handlers with their responses: POST /login of the auth     *)
(* router (exams.js:764-868) and POST /api/login of the server              *)
(* (part_001:757-888).                                                      *)

UnknownEmail == <<"c", "@", "x", ".", "y">>

Response(status, message) == [status |-> status, message |-> message]

\* User.findOne({ email }): the slot, 0 for null
FindOneByEmail(store, email) ==
    IF \E s \in DOMAIN store : store[s].email = email
    THEN CHOOSE s \in DOMAIN store : store[s].email = email
    ELSE 0

\* User.findOne({ $or: [{ email: identifier.toLowerCase() }, { username: identifier }] })
FindOneByIdentifier(store, identifier) ==
    IF \E s \in DOMAIN store : store[s].email = Lower(identifier) \/ store[s].username = identifier
    THEN CHOOSE s \in DOMAIN store : store[s].email = Lower(identifier) \/ store[s].username = identifier
    ELSE 0

\* POST /login: what the handler answers
LoginResponse(store, email, password) ==
    LET u == FindOneByEmail(store, email)
    IN  IF email = <<>> \/ password = <<>> THEN Response(400, "Email and password are required")
        ELSE IF u = 0 THEN Response(401, "Invalid credentials")
        ELSE IF ~store[u].isActive THEN Response(403, "Account deactivated. Contact administrator.")
        ELSE IF ~Compare(password, store[u].password) THEN Response(401, "Invalid credentials")
        ELSE Response(200, "")

\* POST /api/login: what the handler answers
ApiLoginResponse(store, identifier, password) ==
    LET u == FindOneByIdentifier(store, identifier)
    IN  IF identifier = <<>> \/ password = <<>> THEN Response(400, "Email/username and password are required")
        ELSE IF u = 0 THEN Response(401, "Invalid credentials")
        ELSE IF ~Compare(password, store[u].password) THEN Response(401, "Invalid credentials")
        ELSE IF SaveErrors(Put(store[u], "lastLogin", now)) # {} THEN Response(500, "Internal server error")
        ELSE Response(200, "Login successful")

\* jwt.sign({ userId: foundUser._id }, JWT_SECRET, { expiresIn: "1d" })
SignUserId(u, at) == [shape |-> "userId", uid |-> u, iat |-> at, exp |-> at + TokenTTL, sig |-> "ok"]

\* POST /login with its response
PostLogin(email, password) ==
    LET u == FindOneByEmail(users, email)
        res == LoginResponse(users, email, password)
    IN  /\ res.status = 200 => Cardinality(issued) < MaxTokens
        /\ IF res.status = 200
           THEN /\ users' = [users EXCEPT ![u] = Put(@, "lastLogin", now)]
                /\ issued' = issued \cup {Sign(u, users[u], now)}
           ELSE UNCHANGED <<users, issued>>
        /\ audit' = [op |-> "login", caller |-> "anonymous", status |-> res.status, message |-> res.message,
                     token |-> IF res.status = 200 THEN Sign(u, users[u], now) ELSE NoToken]
        /\ UNCHANGED <<creq, now, tokenBlacklist, timers, pwreq, revokedLog, req, nodeEnv, questions, exams, files, disk, dreq>>

\* POST /api/login with its response
ApiLogin(identifier, password) ==
    LET u == FindOneByIdentifier(users, identifier)
        res == ApiLoginResponse(users, identifier, password)
    IN  /\ res.status = 200 => Cardinality(issued) < MaxTokens
        /\ IF res.status = 200
           THEN /\ users' = [users EXCEPT ![u] = Put(@, "lastLogin", now)]
                /\ issued' = issued \cup {SignUserId(u, now)}
           ELSE UNCHANGED <<users, issued>>
        /\ audit' = [op |-> "api-login", caller |-> "anonymous", status |-> res.status, message |-> res.message,
                     token |-> IF res.status = 200 THEN SignUserId(u, now) ELSE NoToken]
        /\ UNCHANGED <<creq, now, tokenBlacklist, timers, pwreq, revokedLog, req, nodeEnv, questions, exams, files, disk, dreq>>

LoginEmails == {Email(1), Email(2), UnknownEmail}

LoginPasswords == {Password, Password2}

InitLogin ==
    /\ InitRest
    /\ users = SeedUsers
    /\ creq = [r \in CreateReqs |-> IdleReq]

NextLogin ==
    \/ \E email \in LoginEmails, password \in LoginPasswords : PostLogin(email, password)
    \/ \E identifier \in LoginEmails \cup {Username(1), Username(2)}, password \in LoginPasswords :
          ApiLogin(identifier, password)
    \/ \E u \in DOMAIN users : SoftDelete(u)
    \/ Tick

SpecLogin == InitLogin /\ [][NextLogin]_vars

----------------------------------------------------------------------------
(* The two registration handlers: POST /register of the auth router         *)
(* (exams.js:692-761) and POST /api/register of the server                  *)
(* (part_001:568-754), followed by logins of the registered users.          *)

\* User.findOne({ $or: [{ email }, { username }] })
ExistingUser(store, username, email) ==
    \E s \in DOMAIN store : store[s].email = email \/ store[s].username = username

\* the _id of the next inserted document
NewSlot(store) == Cardinality(DOMAIN store) + 1

\* new User({ username, email, password, role, permissions: rolePermissions[role] || [] })
RegisterDoc(n, role) ==
    NewUser([username |-> Username(n), email |-> Email(n), password |-> Password, role |-> role,
             permissions |-> rolePermissions(role)])

\* new User({ username, email, password, fullName: fullName || username, role, isActive: true })
ApiRegisterDoc(n, role) ==
    NewUser([username |-> Username(n), email |-> Email(n), password |-> Password,
             fullName |-> Username(n), role |-> role, isActive |-> TRUE])

\* the status save() leads to, and the document it inserts
RegisterStatus(store, doc) ==
    IF ExistingUser(store, doc.username, doc.email) THEN 409
    ELSE IF ValidationErrors(doc) # {} THEN 400
    ELSE 201

Inserted(store, doc) ==
    [s \in (DOMAIN store) \cup {NewSlot(store)} |->
        IF s = NewSlot(store) THEN [doc EXCEPT !.password = Hash(doc.password)] ELSE store[s]]

\* jwt.sign({ user: { id, role, permissions } }, JWT_SECRET, { expiresIn: "24h" })
SignRegister(u, doc, at) ==
    [shape |-> "user", uid |-> u, role |-> doc.role, permissions |-> doc.permissions,
     iat |-> at, exp |-> at + TokenTTL, sig |-> "ok"]

\* POST /register
Register(n, role) ==
    LET doc == RegisterDoc(n, role)
        status == RegisterStatus(users, doc)
        token == SignRegister(NewSlot(users), doc, now)
    IN  /\ status = 201 => Cardinality(issued) < MaxTokens
        /\ IF status = 201
           THEN /\ users' = Inserted(users, doc)
                /\ issued' = issued \cup {token}
           ELSE UNCHANGED <<users, issued>>
        /\ audit' = [op |-> "register", caller |-> "anonymous", status |-> status, message |-> "",
                     token |-> IF status = 201 THEN token ELSE NoToken]
        /\ UNCHANGED <<creq, now, tokenBlacklist, timers, pwreq, revokedLog, req, nodeEnv, questions, exams, files, disk, dreq>>

\* POST /api/register
ApiRegister(n, role) ==
    LET doc == ApiRegisterDoc(n, role)
        status == RegisterStatus(users, doc)
        token == SignUserId(NewSlot(users), now)
    IN  /\ status = 201 => Cardinality(issued) < MaxTokens
        /\ IF status = 201
           THEN /\ users' = Inserted(users, doc)
                /\ issued' = issued \cup {token}
           ELSE UNCHANGED <<users, issued>>
        /\ audit' = [op |-> "api-register", caller |-> "anonymous", status |-> status, message |-> "",
                     token |-> IF status = 201 THEN token ELSE NoToken]
        /\ UNCHANGED <<creq, now, tokenBlacklist, timers, pwreq, revokedLog, req, nodeEnv, questions, exams, files, disk, dreq>>

RegisterRoles == {"admin", "mitra", "perawat"}

InitRegister ==
    /\ InitRest
    /\ users = NoStore
    /\ creq = [r \in CreateReqs |-> IdleReq]

NextRegister ==
    \/ \E n \in 1..2, role \in RegisterRoles : Register(n, role)
    \/ \E n \in 1..2, role \in RegisterRoles : ApiRegister(n, role)
    \/ \E email \in LoginEmails, password \in LoginPasswords : PostLogin(email, password)
    \/ \E identifier \in LoginEmails \cup {Username(1), Username(2)}, password \in LoginPasswords :
          ApiLogin(identifier, password)
    \/ Tick

SpecRegister == InitRegister /\ [][NextRegister]_vars

----------------------------------------------------------------------------
(* generateMissingNPKs (part_000:158-190) on a collection whose roles are   *)
(* edited through PATCH /api/users/:id/role.                                *)

\* find({ role: "perawat", $or: [no npk, npk null, npk not /^NPK\d{4}$/] })
MissingNurses(store) ==
    {s \in DOMAIN store : store[s].role = "perawat" /\ (NoNpk(store[s]) \/ ~MatchesNPK(store[s].npk))}

\* .sort({ createdAt: 1 }): the index of a nurse in the result (documents are created in _id order)
NurseIndex(store, s) == Cardinality({x \in MissingNurses(store) : x < s})

\* nextNumber: one more than the number of the greatest well-formed npk of a perawat, or 1
FirstMissingNumber(store) ==
    IF HasLastNurse(store) THEN parseInt(replaceNPK(LastNurseNpk(store))) + 1 ELSE 1

\* nurse.npk = `NPK${(nextNumber + index).toString().padStart(4, "0")}`
GeneratedNpk(store, s) ==
    <<"N", "P", "K">> \o padStart(toString(FirstMissingNumber(store) + NurseIndex(store, s)), 4)

\* nurse.save(): validation of the loaded document, then the unique index on npk
NurseSaveError(store, s) ==
    LET doc == Put(store[s], "npk", GeneratedNpk(store, s))
    IN  IF SaveErrors(doc) # {} THEN "ValidationError"
        ELSE IF \E o \in (DOMAIN store) \ {s} : ~NoNpk(store[o]) /\ store[o].npk = doc.npk THEN "E11000"
        ELSE ""

GenerateMissingNPKs ==
    LET nurses == MissingNurses(users)
        failed == {s \in nurses : NurseSaveError(users, s) # ""}
    IN  /\ users' = [s \in DOMAIN users |->
                        IF s \in nurses \ failed THEN Put(users[s], "npk", GeneratedNpk(users, s)) ELSE users[s]]
        /\ audit' = [op |-> "generateMissingNPKs", caller |-> "model", status |-> 0,
                     error |-> IF failed # {} THEN "Failed to generate NPKs" ELSE "",
                     updatedCount |-> IF failed # {} THEN NaN ELSE Cardinality(nurses)]
        /\ UNCHANGED <<creq, now, issued, tokenBlacklist, timers, pwreq, revokedLog, req, nodeEnv, questions, exams, files, disk, dreq>>

\* three records made by createUser: a nurse with an npk, a head of unit, an admin
NurseSeed ==
    <<[username |-> Username(2), email |-> Email(2), password |-> Hash(Password), role |-> "perawat",
       npk |-> NPK(1), unit |-> UnitICU, permissions |-> {}, isActive |-> TRUE],
      [username |-> <<"c", "i", "c", "i">>, email |-> <<"c", "@", "x", ".", "y">>, password |-> Hash(Password),
       role |-> "kepala-unit", unit |-> UnitICU, permissions |-> {}, isActive |-> TRUE],
      [username |-> Username(1), email |-> Email(1), password |-> Hash(Password), role |-> "admin",
       permissions |-> {}, isActive |-> TRUE]>>

RoleBodies == {[role |-> "ADMIN"], [role |-> "perawat"], [role |-> "mitra"]}

InitRepair ==
    /\ InitRest
    /\ users = NurseSeed
    /\ creq = [r \in CreateReqs |-> IdleReq]

NextRepair ==
    \/ \E caller \in Callers, id \in DOMAIN NurseSeed, body \in RoleBodies : PatchUserRole(caller, id, body)
    \/ GenerateMissingNPKs

SpecRepair == InitRepair /\ [][NextRepair]_vars

----------------------------------------------------------------------------
(* The question bank and the exams of the exams router (exams.js:60-588):   *)
(* two in-memory arrays.  A question is its id; an exam holds the list of   *)
(* the questions it was given, its questionCount and its status.            *)

Range(f) == {f[i] : i \in DOMAIN f}

SeqsUpTo(S, n) == UNION {[1..k -> S] : k \in 0..n}

QuestionIds == 1..MaxQuestions

ExamIds == 1..MaxExams

\* req.body.questionIds; Absent stands for a body without the key (no question has the id 0)
Absent == <<0>>

QuestionIdsInputs == SeqsUpTo(QuestionIds, MaxIds)

\* bodies of POST /questions: text, type, options and correct answer
QuestionBodies ==
    {[question |-> <<"Q">>, type |-> "essay", options |-> <<>>, correctAnswer |-> ""],
     [question |-> <<" ">>, type |-> "essay", options |-> <<>>, correctAnswer |-> ""],
     [question |-> <<"Q">>, type |-> "", options |-> <<>>, correctAnswer |-> ""],
     [question |-> <<"Q">>, type |-> "multiple-choice", options |-> <<"a">>, correctAnswer |-> "a"],
     [question |-> <<"Q">>, type |-> "multiple-choice", options |-> <<"a", "b">>, correctAnswer |-> ""],
     [question |-> <<"Q">>, type |-> "multiple-choice", options |-> <<"a", "b">>, correctAnswer |-> "c"],
     [question |-> <<"Q">>, type |-> "multiple-choice", options |-> <<"a", "", "b">>, correctAnswer |-> "b"]}

\* String.prototype.trim on the texts the model sends
trim(str) == SelectSeq(str, LAMBDA c : c # " ")

\* the validation of POST /questions (exams.js:110-153)
PostQuestionStatus(body) ==
    LET validOptions == SelectSeq(body.options, LAMBDA opt : opt # "")
    IN  IF trim(body.question) = <<>> THEN 400
        ELSE IF body.type = "" THEN 400
        ELSE IF body.type \in {"multiple-choice", "checkbox"}
                /\ (\/ Len(validOptions) < 2
                    \/ body.correctAnswer = ""
                    \/ body.correctAnswer \notin Range(validOptions)) THEN 400
        ELSE 201

\* uuidv4(): an id no question in the list or in an exam has
FreeQuestionIds == QuestionIds \ (Range(questions) \cup UNION {Range(exams[i].questions) : i \in DOMAIN exams})

\* questionIds.map((id) => questions.find((q) => q.id === id)).filter(Boolean)
FindQuestions(list, questionIds) == SelectSeq(questionIds, LAMBDA id : id \in Range(list))

\* questions.filter((q) => !questionIds.includes(q.id))
RemainingQuestions(list, questionIds) == SelectSeq(list, LAMBDA q : q \notin Range(questionIds))

\* exams.findIndex((e) => e.id === req.params.id), 0 for -1
ExamIndex(id) == IF \E i \in DOMAIN exams : exams[i].id = id
                 THEN CHOOSE i \in DOMAIN exams : exams[i].id = id /\ \A j \in 1..(i - 1) : exams[j].id # id
                 ELSE 0

\* Array.prototype.splice(index, 1)
Splice(list, index) == [i \in 1..(Len(list) - 1) |-> IF i < index THEN list[i] ELSE list[i + 1]]

BankAudit(op, status) == [op |-> op, caller |-> "anonymous", status |-> status]

BankRest == <<users, creq, now, issued, tokenBlacklist, timers, pwreq, revokedLog, req, nodeEnv, files, disk, dreq>>

\* POST /questions
PostQuestion(body) ==
    /\ PostQuestionStatus(body) = 201 => FreeQuestionIds # {}
    /\ questions' = IF PostQuestionStatus(body) = 201
                    THEN Append(questions, CHOOSE id \in FreeQuestionIds : \A o \in FreeQuestionIds : id <= o)
                    ELSE questions
    /\ audit' = BankAudit("post-question", PostQuestionStatus(body))
    /\ UNCHANGED <<exams, BankRest>>

\* PUT /questions/:id: the question keeps its id and its place in the list
PutQuestion(id, text) ==
    /\ audit' = BankAudit("put-question",
                          IF id \notin Range(questions) THEN 404
                          ELSE IF text # <<>> /\ trim(text) = <<>> THEN 400 ELSE 200)
    /\ UNCHANGED <<questions, exams, BankRest>>

\* DELETE /questions/:id
DeleteQuestion(id) ==
    /\ questions' = IF id \in Range(questions)
                    THEN Splice(questions, CHOOSE i \in DOMAIN questions :
                                               questions[i] = id /\ \A j \in 1..(i - 1) : questions[j] # id)
                    ELSE questions
    /\ audit' = BankAudit("delete-question", IF id \in Range(questions) THEN 200 ELSE 404)
    /\ UNCHANGED <<exams, BankRest>>

\* PUT /questions-reorder
ReorderQuestions(questionIds) ==
    /\ questions' = IF questionIds = Absent THEN questions
                    ELSE FindQuestions(questions, questionIds) \o RemainingQuestions(questions, questionIds)
    /\ audit' = [op |-> "questions-reorder", caller |-> "anonymous",
                 status |-> IF questionIds = Absent THEN 400 ELSE 200, questionIds |-> questionIds]
    /\ UNCHANGED <<exams, BankRest>>

\* bodies of POST /exams and PUT /exams/:id
Titles == {<<>>, <<"U">>}

ExamStatuses == {"", "draft", "published"}

\* the status POST /exams answers
PostExamStatus(title, questionIds) ==
    IF trim(title) = <<>> THEN 400
    ELSE IF questionIds = Absent \/ Len(questionIds) = 0 THEN 400
    ELSE IF Len(FindQuestions(questions, questionIds)) # Len(questionIds) THEN 400
    ELSE 201

FreeExamIds == ExamIds \ {exams[i].id : i \in DOMAIN exams}

\* POST /exams
PostExam(title, questionIds) ==
    /\ PostExamStatus(title, questionIds) = 201 => FreeExamIds # {}
    /\ exams' = IF PostExamStatus(title, questionIds) = 201
                THEN Append(exams, [id |-> CHOOSE id \in FreeExamIds : \A o \in FreeExamIds : id <= o,
                                    title |-> trim(title),
                                    questions |-> FindQuestions(questions, questionIds),
                                    questionCount |-> Len(FindQuestions(questions, questionIds)),
                                    status |-> "draft"])
                ELSE exams
    /\ audit' = BankAudit("post-exam", PostExamStatus(title, questionIds))
    /\ UNCHANGED <<questions, BankRest>>

\* the exam PUT /exams/:id stores: questions and questionCount when the body
\* has questionIds, status when the body has a non-empty one
UpdatedExam(exam, questionIds, status) ==
    LET examQuestions == IF questionIds # Absent THEN FindQuestions(questions, questionIds) ELSE exam.questions
        withQuestions == IF questionIds # Absent
                         THEN [exam EXCEPT !.questions = examQuestions, !.questionCount = Len(examQuestions)]
                         ELSE exam
    IN  IF status # "" THEN [withQuestions EXCEPT !.status = status] ELSE withQuestions

\* PUT /exams/:id
PutExam(id, questionIds, status) ==
    /\ exams' = IF ExamIndex(id) = 0 THEN exams
                ELSE [exams EXCEPT ![ExamIndex(id)] = UpdatedExam(@, questionIds, status)]
    /\ audit' = BankAudit("put-exam", IF ExamIndex(id) = 0 THEN 404 ELSE 200)
    /\ UNCHANGED <<questions, BankRest>>

\* DELETE /exams/:id
DeleteExam(id) ==
    /\ exams' = IF ExamIndex(id) = 0 THEN exams ELSE Splice(exams, ExamIndex(id))
    /\ audit' = BankAudit("delete-exam", IF ExamIndex(id) = 0 THEN 404 ELSE 200)
    /\ UNCHANGED <<questions, BankRest>>

\* the status PUT /exams/:id/publish answers
PublishStatus(id) ==
    IF ExamIndex(id) = 0 THEN 404
    ELSE IF Len(exams[ExamIndex(id)].questions) = 0 THEN 400
    ELSE 200

\* PUT /exams/:id/publish
PublishExam(id) ==
    /\ exams' = IF PublishStatus(id) = 200
                THEN [exams EXCEPT ![ExamIndex(id)].status = "published"]
                ELSE exams
    /\ audit' = BankAudit("publish-exam", PublishStatus(id))
    /\ UNCHANGED <<questions, BankRest>>

InitBank ==
    /\ InitRest
    /\ users = SeedUsers
    /\ creq = [r \in CreateReqs |-> IdleReq]

NextBank ==
    \/ \E body \in QuestionBodies : PostQuestion(body)
    \/ \E id \in QuestionIds, text \in {<<>>, <<" ">>, <<"Q">>} : PutQuestion(id, text)
    \/ \E id \in QuestionIds : DeleteQuestion(id)
    \/ \E questionIds \in QuestionIdsInputs \cup {Absent} : ReorderQuestions(questionIds)
    \/ \E title \in Titles, questionIds \in QuestionIdsInputs \cup {Absent} : PostExam(title, questionIds)
    \/ \E id \in ExamIds, questionIds \in QuestionIdsInputs \cup {Absent}, status \in ExamStatuses :
          PutExam(id, questionIds, status)
    \/ \E id \in ExamIds : DeleteExam(id)
    \/ \E id \in ExamIds : PublishExam(id)

SpecBank == InitBank /\ [][NextBank]_vars

----------------------------------------------------------------------------
(* The files router (part_002): POST / behind authenticateToken,            *)
(* requireRole(["admin", "kepala-unit"]) and upload.single("file"), and     *)
(* the soft delete.  A file name is a number; sizes are in MB.              *)

SCHEDULE_CATEGORY == "jadwal_perawat"

ALLOWED_EXCEL_TYPES ==
    {"application/vnd.ms-excel", "application/vnd.openxmlformats-officedocument.spreadsheetml.sheet"}

allowedTypes ==
    {"application/pdf", "application/msword",
     "application/vnd.openxmlformats-officedocument.wordprocessingml.document",
     "application/vnd.ms-powerpoint",
     "application/vnd.openxmlformats-officedocument.presentationml.presentation",
     "text/plain", "image/jpeg", "image/png", "image/gif", "application/zip",
     "application/x-zip-compressed"} \cup ALLOWED_EXCEL_TYPES

\* limits: { fileSize: 50 * 1024 * 1024 }
FileSizeLimit == 50

\* the file part of the multipart request; NoFile when the request has none
NoFile == [mimetype |-> "", size |-> 0]

FileParts ==
    {NoFile, [mimetype |-> "application/pdf", size |-> FileSizeLimit + 1]}
    \cup {[mimetype |-> m, size |-> 1] : m \in {"application/pdf", "application/vnd.ms-excel", "video/mp4"}}

\* the text fields of the request ("" for a field the request does not have)
UploadBodies ==
    {[category |-> c, month |-> "", unit |-> ""] : c \in {"", "templates", SCHEDULE_CATEGORY, "nurse_schedules"}}
    \cup {[category |-> SCHEDULE_CATEGORY, month |-> "Januari", unit |-> "ICU"]}

\* fileFilter: the message of the error it passes to multer, "" when it accepts.
\* seen is req.body.category at the time the file part arrives
fileFilter(seen, part) ==
    IF seen = SCHEDULE_CATEGORY /\ part.mimetype \notin ALLOWED_EXCEL_TYPES
    THEN "Only Excel files allowed for nurse schedules"
    ELSE IF part.mimetype \in allowedTypes THEN ""
    ELSE "File type not allowed"

\* upload.single("file"): the error multer passes on and whether req.file is
\* a file stored in uploads/files (multer removes what it stored when it fails)
Multer(part, body, fieldsFirst) ==
    LET seen == IF fieldsFirst THEN body.category ELSE ""
    IN  IF part = NoFile THEN [error |-> "", stored |-> FALSE]
        ELSE IF fileFilter(seen, part) # "" THEN [error |-> fileFilter(seen, part), stored |-> FALSE]
        ELSE IF part.size > FileSizeLimit THEN [error |-> "LIMIT_FILE_SIZE", stored |-> FALSE]
        ELSE [error |-> "", stored |-> TRUE]

\* the error handler of the router (part_002:420-438); next(error) ends in a 500
MulterErrorStatus(error) ==
    IF error \in {"LIMIT_FILE_SIZE", "File type not allowed"} THEN 400 ELSE 500

getFileType(mimetype) ==
    IF mimetype = "application/pdf" THEN "pdf"
    ELSE IF mimetype \in ALLOWED_EXCEL_TYPES THEN "xlsx"
    ELSE "default"

\* new File({...}) of the upload handler
NewFile(name, part, body, user) ==
    LET base == [fileName |-> name, category |-> IF body.category = "" THEN "guidelines" ELSE body.category,
                 fileType |-> getFileType(part.mimetype), size |-> part.size,
                 downloadCount |-> 0, isActive |-> TRUE]
        withUser == IF Has(user, "id") THEN Put(base, "uploadedBy", user.id) ELSE base
    IN  IF body.category = SCHEDULE_CATEGORY
        THEN Put(withUser, "metadata", [month |-> body.month, unit |-> body.unit])
        ELSE withUser

FileCategories == {"guidelines", "templates", "references", "nurse_schedules"}

\* the paths of a File document that fail validation (file.js:3-94)
FileValidationErrors(d) ==
    {f \in {"category", "metadata", "uploadedBy"} :
        \/ f = "category" /\ d.category \notin FileCategories
        \/ f = "metadata" /\ d.category = "nurse_schedules"
                          /\ (~Has(d, "metadata") \/ d.metadata.month = "" \/ d.metadata.unit = "")
        \/ f = "uploadedBy" /\ ~Has(d, "uploadedBy")}

\* fs.unlinkSync(req.file.path) without its effect
Unlink_KeepsFile(d, name) == d

\* fs.unlinkSync(req.file.path)
Unlink(d, name) == d \ {name}

\* the upload handler (part_002:221-307) once multer has stored req.file under
\* the name: the step that answered, the status, and the store and the disk it leaves
UploadHandler(name, part, body, user) ==
    LET stored == disk \cup {name}
        newFile == NewFile(name, part, body, user)
    IN  IF body.category = SCHEDULE_CATEGORY /\ (body.month = "" \/ body.unit = "")
        THEN [step |-> "schedule-fields", status |-> 400, files |-> files, disk |-> Unlink(stored, name)]
        ELSE IF body.category = SCHEDULE_CATEGORY /\ part.mimetype \notin ALLOWED_EXCEL_TYPES
        THEN [step |-> "schedule-type", status |-> 400, files |-> files, disk |-> Unlink(stored, name)]
        ELSE IF FileValidationErrors(newFile) # {}
        THEN [step |-> "save", status |-> 500, files |-> files, disk |-> Unlink(stored, name)]
        ELSE [step |-> "ok", status |-> 201,
              files |-> [id \in (DOMAIN files) \cup {name} |-> IF id = name THEN newFile ELSE files[id]],
              disk |-> stored]

\* the whole chain of POST /
UploadOutcome(name, t, part, body, fieldsFirst) ==
    LET auth == authenticateToken(t)
        gate == requireRole({"admin", "kepala-unit"}, auth.user)
        multer == Multer(part, body, fieldsFirst)
        same(step, status) == [step |-> step, status |-> status, files |-> files, disk |-> disk]
    IN  IF ~auth.next THEN same("authenticate", auth.status)
        ELSE IF ~gate.next THEN same("role", gate.status)
        ELSE IF multer.error # "" THEN same("multer", MulterErrorStatus(multer.error))
        ELSE IF ~multer.stored THEN same("no-file", 400)
        ELSE UploadHandler(name, part, body, auth.user)

\* "file-" + Date.now() + "-" + random: a name no file has; the record gets the same number as _id
NewFileName == Cardinality(DOMAIN files) + 1

FilesRest == <<users, creq, now, issued, tokenBlacklist, timers, pwreq, revokedLog, req, nodeEnv, questions, exams>>

\* POST /api/files
Upload(t, part, body, fieldsFirst) ==
    LET o == UploadOutcome(NewFileName, t, part, body, fieldsFirst)
    IN  /\ o.status = 201 => Cardinality(DOMAIN files) < MaxFiles
        /\ files' = o.files
        /\ disk' = o.disk
        /\ audit' = [op |-> "upload", caller |-> "anonymous", status |-> o.status, step |-> o.step,
                     fileName |-> NewFileName]
        /\ UNCHANGED <<dreq, FilesRest>>

\* DELETE /api/files/:id by an admin: file.isActive = false; the file stays on disk
DeleteFile(id) ==
    /\ files' = IF id \in DOMAIN files THEN [files EXCEPT ![id].isActive = FALSE] ELSE files
    /\ audit' = [op |-> "delete-file", caller |-> "admin", status |-> IF id \in DOMAIN files THEN 200 ELSE 404]
    /\ UNCHANGED <<disk, dreq, FilesRest>>

UploadTokens ==
    {NoToken, Forge(Sign(3, NurseSeed[3], 0))} \cup {Sign(u, NurseSeed[u], 0) : u \in DOMAIN NurseSeed}

InitUpload ==
    /\ InitRest
    /\ users = NurseSeed
    /\ creq = [r \in CreateReqs |-> IdleReq]

NextUpload ==
    \/ \E t \in UploadTokens, part \in FileParts, body \in UploadBodies, fieldsFirst \in BOOLEAN :
          Upload(t, part, body, fieldsFirst)
    \/ \E id \in 1..MaxFiles : DeleteFile(id)

SpecUpload == InitUpload /\ [][NextUpload]_vars

----------------------------------------------------------------------------
(* GET /api/files/download/:filename (part_002:311-348) with                *)
(* incrementDownload (file.js:126-130): each request first loads the        *)
(* record, then saves the count it read plus one.  The requests are past    *)
(* authenticateToken.                                                       *)

DownloadReqs == 1..MaxDownloads

IdleDownload == [pc |-> "idle", file |-> 0, doc |-> NoDoc, status |-> 0]

\* two files uploaded by the admin
FileSeed ==
    [id \in {1, 2} |->
        NewFile(id, [mimetype |-> "application/pdf", size |-> 1],
                [category |-> "", month |-> "", unit |-> ""], [id |-> ObjectId(3)])]

\* File.findOne({ fileName: filename, isActive: true }): the _id found, 0 for null
FindActiveFile(filename) ==
    IF \E id \in DOMAIN files : files[id].fileName = filename /\ files[id].isActive
    THEN CHOOSE id \in DOMAIN files : files[id].fileName = filename /\ files[id].isActive
    ELSE 0

\* the handler up to its second await: findOne, existsSync, this.downloadCount += 1
DownloadFind(r, filename) ==
    /\ dreq[r].pc = "idle"
    /\ LET id == FindActiveFile(filename)
       IN  dreq' = [dreq EXCEPT ![r] =
                       IF id = 0 \/ files[id].fileName \notin disk
                       THEN [pc |-> "done", file |-> id, doc |-> NoDoc, status |-> 404]
                       ELSE [pc |-> "found", file |-> id,
                             doc |-> [files[id] EXCEPT !.downloadCount = @ + 1], status |-> 0]]
    /\ UNCHANGED <<files, disk, audit, FilesRest>>

\* this.save() writes the modified path downloadCount; then res.sendFile
DownloadSave(r) ==
    /\ dreq[r].pc = "found"
    /\ files' = [files EXCEPT ![dreq[r].file].downloadCount = dreq[r].doc.downloadCount]
    /\ dreq' = [dreq EXCEPT ![r].pc = "done", ![r].status = 200]
    /\ UNCHANGED <<disk, audit, FilesRest>>

InitDownload ==
    /\ users = NurseSeed
    /\ creq = [r \in CreateReqs |-> IdleReq]
    /\ now = 0
    /\ issued = {}
    /\ tokenBlacklist = {}
    /\ timers = {}
    /\ pwreq = {}
    /\ revokedLog = {}
    /\ req = NoReq
    /\ audit = NoAudit
    /\ nodeEnv = "development"
    /\ questions = <<>>
    /\ exams = <<>>
    /\ files = FileSeed
    /\ disk = {FileSeed[id].fileName : id \in DOMAIN FileSeed}
    /\ dreq = [r \in DownloadReqs |-> IdleDownload]

NextDownload ==
    \/ \E r \in DownloadReqs, filename \in 1..3 : DownloadFind(r, filename)
    \/ \E r \in DownloadReqs : DownloadSave(r)
    \/ \E id \in DOMAIN FileSeed : DeleteFile(id)

SpecDownload == InitDownload /\ [][NextDownload]_vars

----------------------------------------------------------------------------
(* Claims about npk assignment under concurrent creations (SpecCreate) *)

Finished(r) == creq[r].pc \in {"ok", "failed"}

\* C1: in every interleaving of creations (with and without an npk supplied)
\* and npk edits, no two persisted user records hold the same npk value.
C1_NpkUnique ==
    \A s, t \in DOMAIN users :
        (s # t /\ Has(users[s], "npk") /\ Has(users[t], "npk")) => users[s].npk # users[t].npk

\* C1 witness: two creation requests with role perawat and no npk have both run
\* to their end while a third party's edits were possible.
C1_Witness ==
    \E r1, r2 \in CreateReqs : r1 # r2 /\ creq[r1].auto /\ creq[r2].auto /\ Finished(r1) /\ Finished(r2)

\* C2: when the N perawat users without npk have all been created, all N
\* creations succeeded and their records hold the N consecutive codes.
C2_ConcurrentCreatesSucceed ==
    (\A r \in CreateReqs : creq[r].auto /\ Finished(r)) =>
        /\ \A r \in CreateReqs : creq[r].pc = "ok" /\ r \in DOMAIN users
        /\ {users[r].npk : r \in (DOMAIN users) \cap CreateReqs} = {NPK(n) : n \in 1..MaxCreate}

----------------------------------------------------------------------------
(* Claims about who changes and who removes user records (SpecUsers) *)

RoleOrPermissionsChanged ==
    \E s \in (DOMAIN users) \cap (DOMAIN users') :
        users'[s].role # users[s].role \/ users'[s].permissions # users[s].permissions

RecordRemoved == \E s \in DOMAIN users : s \notin DOMAIN users'

\* C9: the role or permissions of an existing user record change only as the
\* effect of a request by an authenticated caller whose role is admin.
C9_RoleChangeOnlyByAdmin == [][RoleOrPermissionsChanged => audit'.caller = "admin"]_vars

\* C10: a user record is removed from the store only by an administrative
\* purge (the cleanup routes) that an admin asked for; no other route and no
\* unauthenticated or non-admin request removes one.
C10_RemovalOnlyByAdminPurge ==
    [][RecordRemoved => (audit'.op \in {"cleanup", "clear-all"} /\ audit'.caller = "admin")]_vars

----------------------------------------------------------------------------
(* Claims about revoked tokens (SpecSession) *)

\* C3: once a token has been revoked by logout (or by a password change),
\* verifyToken rejects it in every later state, while every token that was
\* signed, is unexpired and was not revoked is still accepted.
C3_RevokedTokenRejected ==
    /\ \A t \in revokedLog : verifyToken(t) # 0
    /\ \A t \in issued \ revokedLog : now < t.exp => verifyToken(t) = 0

\* C3 witness: a revoked, still unexpired token is answered 401 while another
\* unexpired token of the same user passes.
C3_Witness ==
    \E t \in revokedLog, t2 \in issued \ revokedLog :
        /\ t.uid = t2.uid /\ now < t.exp /\ now < t2.exp
        /\ verifyToken(t) = 401 /\ verifyToken(t2) = 0

\* C4: authenticateToken calls next only for a token that passes the
\* verifier's checks: an expired, badly signed or blacklisted token is
\* answered 401/403 and next is not called.
C4_AuthenticateRejectsInvalid ==
    \A t \in Presentable :
        (JwtVerify(t, now) # "ok" \/ isTokenBlacklisted(t)) =>
            (~authenticateToken(t).next /\ authenticateToken(t).status \in {401, 403})

----------------------------------------------------------------------------
(* Claims about the middleware chain (SpecChain, SpecPolicy) *)

\* C5: in every chain built by authorize(options) the stages run in the
\* order of the chain, the route handler runs only after every stage called
\* next, and once a stage has answered with an error no later stage and no
\* handler runs and at most one response is sent.
C5_ChainShortCircuits ==
    req.pc # "none" =>
        /\ req.trace = [i \in 1..Len(req.trace) |-> i]
        /\ req.nresp <= 1
        /\ req.handlerRan => (Len(req.trace) = Len(req.chain) /\ req.status = 200)
        /\ (req.status # 0 /\ ~req.handlerRan) =>
              (req.pc = "done" /\ req.last.status = req.status /\ ~req.last.next)

\* a stage in the middle of a chain answered 403 and the rest of the chain never ran
C5_Witness ==
    /\ req.pc = "done"
    /\ req.status = 403
    /\ ~req.handlerRan
    /\ Len(req.trace) >= 2
    /\ Len(req.trace) < Len(req.chain)

\* C6: the requirePermission stage calls next exactly when the tag is in
\* rolePermissions[role] or in the request's own permissions and otherwise
\* answers 403 without calling next; manage_users is denied to a perawat
\* without extra permissions and allowed to an admin.
C6_PermissionStage ==
    (req.pc # "none" /\ req.last.kind = "perm") =>
        /\ req.last.next <=> (req.last.arg \in rolePermissions(req.user.role) \cup req.user.permissions)
        /\ ~req.last.next => (req.last.status = 403 /\ req.pc = "done" /\ ~req.handlerRan)
        /\ (req.last.arg = "manage_users" /\ req.user.role = "perawat" /\ req.user.permissions = {})
              => ~req.last.next
        /\ (req.last.arg = "manage_users" /\ req.user.role = "admin") => req.last.next

C6_Witness ==
    /\ req.pc = "done"
    /\ req.last.kind = "perm"
    /\ req.last.arg = "manage_users"
    /\ req.user.role = "perawat"
    /\ req.user.permissions = {}
    /\ req.last.status = 403

ActiveStageReturned == AtStage("active") /\ Len(req'.trace) = Len(req.trace) + 1

\* C7: the requireActiveUser stage answers 403 without calling next when the
\* record of the token's id is missing or has isActive = FALSE, and calls
\* next only for a record with isActive = TRUE, whose lastLogin it updates.
C7_ActiveUserStage ==
    [][ActiveStageReturned =>
          /\ (req.sub = "" /\ req.user # NoUserData /\ findById(req.user.id) = "found"
                /\ req.user.id[2] \notin DOMAIN users)
                => (req'.last.status = 403 /\ ~req'.last.next)
          /\ (req.sub = "found" /\ ~req.userDetails.isActive)
                => (req'.last.status = 403 /\ ~req'.last.next)
          /\ (req.sub = "found" /\ req'.last.next)
                => (req.userDetails.isActive /\ Has(users'[req.user.id[2]], "lastLogin"))]_vars

RefreshRan == \E i \in 1..Len(req.trace) : req.chain[i].kind = "refresh" /\ i < req.pos

Allowed(stage, role, permissions) ==
    IF stage.kind = "role" THEN role \in stage.arg
    ELSE IF stage.kind = "minRole" THEN roleHierarchy(role) >= roleHierarchy(stage.arg)
    ELSE stage.arg \in rolePermissions(role) \cup permissions

----------------------------------------------------------------------------
(* Claims about the statics of the User model (SpecStatics) *)

\* C11: a soft-deleted record stays in the store with isActive = FALSE and,
\* as long as it is inactive, findByUsername, findByEmail, findActiveById and
\* findAllWithFilters never return it.
C11_SoftDeletedIsHidden ==
    /\ DOMAIN users = DOMAIN SeedUsers
    /\ \A u \in DOMAIN users :
          ~users[u].isActive =>
              /\ findByUsername(users, users[u].username) # u
              /\ findByEmail(users, users[u].email) # u
              /\ ActiveById(users, ObjectId(u)) = 0
              /\ ActiveById(users, Uuid(u)) = "CastError"
              /\ \A filters \in FilterInputs :
                    \A i \in 1..Len(findAllWithFilters(users, filters)) :
                        findAllWithFilters(users, filters)[i] # u

\* budi was soft-deleted: the queries that found him now find nothing
C11_Witness ==
    /\ audit.op = "softDelete"
    /\ 2 \in DOMAIN users
    /\ ~users[2].isActive
    /\ findByUsername(users, Username(2)) = 0
    /\ findByUsername(SeedUsers, Username(2)) = 2
    /\ findAllWithFilters(SeedUsers, [role |-> "perawat"]) = <<2>>
    /\ findAllWithFilters(users, [role |-> "perawat"]) = <<>>

----------------------------------------------------------------------------
(* Claims about the login handlers (SpecLogin) *)

\* C12: a login with an identifier that matches no user gets the same status
\* and message as a login with the identifier of an existing user and a
\* wrong password, whether that user is active or deactivated.
C12_LoginDoesNotLeakExistence ==
    \A u \in DOMAIN users :
        /\ LoginResponse(users, users[u].email, Password2) = LoginResponse(users, UnknownEmail, Password2)
        /\ ApiLoginResponse(users, users[u].email, Password2) = ApiLoginResponse(users, UnknownEmail, Password2)

----------------------------------------------------------------------------
(* Claims about password updates (SpecSession) *)

PasswordChanged(u) == u \in DOMAIN users /\ u \in DOMAIN users' /\ users'[u].password # users[u].password

\* C13: once a password update of a user has succeeded, the verifier rejects
\* every token issued to that user before the update, not only the token
\* that carried the request.
C13_PasswordUpdateRevokesAll ==
    [][\A u \in DOMAIN SeedUsers :
          PasswordChanged(u) => \A t \in issued : t.uid = u => (verifyToken(t) # 0)']_vars

----------------------------------------------------------------------------
(* Claims about the npk a creation is given (SpecCreate) *)

\* C14: a creation with role perawat and no npk (and nothing else wrong with
\* the input) stores the record, with an npk of the form NPK + 4 digits.
C14_AutoNpkAssigned ==
    \A r \in CreateReqs :
        (creq[r].auto /\ Finished(r) /\ creq[r].paths \subseteq {"npk"} /\ creq[r].err # "DuplicateError")
            => (/\ creq[r].pc = "ok"
                /\ r \in DOMAIN users
                /\ MatchesNPK(users[r].npk))

----------------------------------------------------------------------------
(* Claims about the role gates and the role policy table (SpecPolicy) *)

\* C15: requireRole(allowedRoles) calls next when the request's role is in
\* allowedRoles; otherwise it answers 403 without calling next, with a body
\* that carries the allowed roles and the redirect URL of the caller's role.
C15_RequireRoleAnswer ==
    (req.pc # "none" /\ req.last.kind = "role") =>
        /\ req.last.next <=> (req.user.role \in req.last.arg)
        /\ ~req.last.next =>
              /\ req.last.status = 403
              /\ req.body.message[2] = req.last.arg
              /\ Has(req.body, "redirectUrl")
              /\ req.body.redirectUrl = getRoleRedirectUrl(req.user.role)

\* C16: requireMinimumRole(minRole) answers 403 without calling next exactly
\* when getRoleLevel of the caller's role is below getRoleLevel of minRole,
\* and the level table of the stage agrees with getRoleLevel for every role.
C16_MinimumRoleStage ==
    /\ (req.pc # "none" /\ req.last.kind = "minRole") =>
          /\ req.last.next <=> ~(getRoleLevel(req.user.role) < getRoleLevel(req.last.arg))
          /\ ~req.last.next => (req.last.status = 403 /\ req.pc = "done" /\ ~req.handlerRan)
    /\ req.pc # "none" => roleHierarchy(req.user.role) = getRoleLevel(req.user.role)

\* a perawat is stopped by requireMinimumRole("mitra")
C16_Witness ==
    /\ req.pc = "done"
    /\ req.last.kind = "minRole"
    /\ req.last.arg = "mitra"
    /\ req.user.role = "perawat"
    /\ req.last.status = 403
    /\ ~req.handlerRan

PolicyTables == {"rolePermissions", "menuAccess", "roleHierarchy", "roleRedirects"}

\* C17: every role a stored record holds has an entry in each table of the
\* role policy (permissions, menus, level, redirect), and a lookup for a
\* role without entry yields no permissions, no menus, level 0 and "/".
C17_RoleTableTotal ==
    /\ \A u \in DOMAIN users : PolicyEntries(users[u].role) = PolicyTables
    /\ \A role \in Roles \cup {"nurse", "guest"} :
          /\ "rolePermissions" \notin PolicyEntries(role) => rolePermissions(role) = {}
          /\ "menuAccess" \notin PolicyEntries(role) => getMenuAccess(role) = {}
          /\ "roleHierarchy" \notin PolicyEntries(role) => getRoleLevel(role) = 0
          /\ "roleRedirects" \notin PolicyEntries(role) => getRoleRedirectUrl(role) = "/"

----------------------------------------------------------------------------
(* Claims about updateUser (SpecStatics) *)

UpdateUserReturned == audit'.op = "updateUser"

\* C18: updateUser changes no field outside its allow-list, and a key of the
\* patch that is not on the list is dropped without an error being raised
\* for it.
C18_UpdateUserAllowList ==
    [][UpdateUserReturned =>
          /\ \A u \in DOMAIN users :
                /\ u \in DOMAIN users'
                /\ \A k \in (DOMAIN users[u] \cup DOMAIN users'[u]) \ allowedUpdates :
                      Has(users[u], k) /\ Has(users'[u], k) /\ users'[u][k] = users[u][k]
          /\ ~(DOMAIN audit'.updateData \subseteq allowedUpdates)
                => audit'.error # "No valid fields to update"]_vars

\* C19: updateUser on an id that matches no active record (no record, or a
\* soft-deleted one) fails and leaves the store unchanged.
C19_UpdateUserNotFound ==
    [][(/\ UpdateUserReturned
        /\ audit'.userId[1] = "ObjectId"
        /\ ~IsActiveRecord(users, audit'.userId))
          => (audit'.error # "" /\ users' = users)]_vars

----------------------------------------------------------------------------
(* Claims about the request context along the chain (SpecChain) *)

----------------------------------------------------------------------------
(* Claims about the eviction of revoked tokens (SpecSessionLive) *)

ExpiredInSet == {t \in tokenBlacklist : now >= t.exp}

\* C21: a token in the revocation set leaves it only when its expiry time
\* has been reached, and whenever the set holds tokens whose expiry has
\* passed it eventually holds none.
C21_EvictionAtExpiry ==
    /\ [][\A t \in tokenBlacklist : t \notin tokenBlacklist' => now >= t.exp]_vars
    /\ (ExpiredInSet # {}) ~> (ExpiredInSet = {})

\* a revoked token has reached its expiry and its timer has taken it out of the set
C21_Witness ==
    \E t \in revokedLog :
        /\ now >= t.exp
        /\ t \notin tokenBlacklist
        /\ \A tm \in timers : tm.token # t

----------------------------------------------------------------------------
(* Claims about the tokens of registered users (SpecRegister) *)

\* C22: a user who registered and then logs in with the correct password,
\* with no role or permission change in between, gets a token that embeds
\* the user's role and exactly the permissions the role table gives that role.
C22_LoginTokenCarriesRolePermissions ==
    (audit.op \in {"login", "api-login"} /\ audit.status = 200) =>
        /\ Has(audit.token, "role")
        /\ audit.token.role = users[audit.token.uid].role
        /\ audit.token.permissions = rolePermissions(audit.token.role)

----------------------------------------------------------------------------
(* Claims about updateLastLogin (SpecStatics) *)

\* C23: updateLastLogin sets lastLogin to the current time and succeeds
\* whatever the state of the record's other fields: a constraint the record
\* no longer satisfies does not make it fail.
C23_UpdateLastLoginSucceeds ==
    audit.op = "updateLastLogin" =>
        /\ audit.error = ""
        /\ Has(users[audit.userId[2]], "lastLogin")
        /\ users[audit.userId[2]].lastLogin = now

----------------------------------------------------------------------------
(* Claims about generateMissingNPKs (SpecRepair) *)

\* C24: generateMissingNPKs, run alone, gives every perawat that lacks a
\* well-formed npk the code NPK plus 4 digits numbered consecutively from
\* the current maximum + 1 in creation order, returns the number of records
\* repaired, leaves the npks of the perawat pairwise distinct and changes no
\* npk that was well-formed.
C24_GenerateMissingNPKs ==
    [][audit'.op = "generateMissingNPKs" =>
          /\ audit'.error = ""
          /\ audit'.updatedCount = Cardinality(MissingNurses(users))
          /\ \A s \in MissingNurses(users) :
                /\ Has(users'[s], "npk")
                /\ users'[s].npk = NPK(FirstMissingNumber(users) + NurseIndex(users, s))
                /\ MatchesNPK(users'[s].npk)
          /\ \A s \in (DOMAIN users) \ MissingNurses(users) : users'[s] = users[s]
          /\ \A a, b \in {s \in DOMAIN users' : users'[s].role = "perawat"} :
                a # b => users'[a].npk # users'[b].npk]_vars

\* C25: every token a register or login endpoint issued is, while unexpired
\* and unrevoked, accepted by authenticateToken, which attaches claims with
\* a defined id and a defined role.
C25_IssuedTokenAccepted ==
    \A t \in issued :
        (now < t.exp /\ ~isTokenBlacklisted(t)) =>
            /\ authenticateToken(t).next
            /\ Has(authenticateToken(t).user, "id")
            /\ Has(authenticateToken(t).user, "role")

----------------------------------------------------------------------------
(* Claims about callers without a level (SpecPolicy) *)

\* C26: for every minimum role a user record can hold, requireMinimumRole
\* and checkMinimumRole never admit a caller whose role has no entry in the
\* hierarchy table (level 0).
C26_LevelZeroNeverAdmitted ==
    (req.pc # "none" /\ req.last.kind = "minRole" /\ roleHierarchy(req.user.role) = 0) =>
        /\ ~req.last.next
        /\ ~req.handlerRan
        /\ ~checkMinimumRole(req.user.role, req.last.arg)

----------------------------------------------------------------------------
(* Claims about the exams and the question list (SpecBank) *)

\* C27: after any sequence of exam and question operations every published
\* exam has at least one question, and the questionCount of every exam is
\* the length of its questions list.
C27_PublishedExamHasQuestions ==
    \A i \in DOMAIN exams :
        /\ exams[i].status = "published" => Len(exams[i].questions) >= 1
        /\ exams[i].questionCount = Len(exams[i].questions)

Count(list, q) == Cardinality({i \in DOMAIN list : list[i] = q})

\* C28: questions-reorder leaves the question list a permutation of the
\* list before the call (nothing added, dropped or duplicated), with the
\* listed ids first in the given order and the unlisted questions after
\* them in their previous relative order.
C28_ReorderIsPermutation ==
    [][(audit'.op = "questions-reorder" /\ audit'.status = 200) =>
          /\ Len(questions') = Len(questions)
          /\ \A q \in QuestionIds : Count(questions', q) = Count(questions, q)
          /\ \E k \in 0..Len(questions') :
                /\ \A i \in 1..k : questions'[i] \in Range(audit'.questionIds)
                /\ [i \in 1..(Len(questions') - k) |-> questions'[k + i]]
                      = RemainingQuestions(questions, audit'.questionIds)]_vars

----------------------------------------------------------------------------
(* Claims about uploads (SpecUpload) *)

\* C30: an upload that does not end with 201 leaves neither a File record
\* nor the uploaded file on disk, whichever step failed; an upload that ends
\* with 201 leaves exactly one new record and one new file.
C30_UploadAllOrNothing ==
    [][audit'.op = "upload" =>
          IF audit'.status = 201
          THEN /\ \E id \in (DOMAIN files') \ (DOMAIN files) :
                     /\ DOMAIN files' = (DOMAIN files) \cup {id}
                     /\ files'[id].fileName = audit'.fileName
               /\ \A id \in DOMAIN files : files'[id] = files[id]
               /\ audit'.fileName \notin disk
               /\ disk' = disk \cup {audit'.fileName}
          ELSE /\ files' = files
               /\ disk' = disk
               /\ audit'.fileName \notin disk']_vars

\* after a stored upload, a second one passed multer and failed at save
C30_Witness ==
    /\ audit.op = "upload"
    /\ audit.step = "save"
    /\ audit.status = 500
    /\ DOMAIN files # {}
    /\ disk = {files[id].fileName : id \in DOMAIN files}

----------------------------------------------------------------------------
(* Claims about concurrent downloads (SpecDownload) *)

\* C29: in every interleaving of download requests for the same file, once
\* all of them have completed the stored downloadCount of the file is its
\* earlier value plus the number of downloads that were served.
C29_DownloadCountExact ==
    (\A r \in DownloadReqs : dreq[r].pc \in {"idle", "done"}) =>
        \A id \in DOMAIN files :
            files[id].downloadCount =
                FileSeed[id].downloadCount
                    + Cardinality({r \in DownloadReqs : dreq[r].status = 200 /\ dreq[r].file = id})

====
